---- MODULE Spec2Model ----
(***************************************************************************)
(* A model of vol2mesh's Mesh class (src/vol2mesh/mesh.py): the lazy       *)
(* compression lifecycle (lz4 / draco), destroy(), and the in-place engine *)
(* operations (stitching, normals, smoothing, decimation, quantization,    *)
(* trimming, concatenation).                                               *)
(*                                                                         *)
(* Conventions.                                                            *)
(*  - A numpy (N,3) array is a sequence of rows <<a, b, c>>.               *)
(*  - A float is a fixed-point integer counting 1/Resolution units; the    *)
(*    rounding of float32 arithmetic is rounding to that grid.             *)
(*  - Python's None is the empty tuple, a present value x is <<x>>.        *)
(*  - A method is an operator from the mesh (a record of the object's      *)
(*    fields) to [mesh |-> the mesh afterwards, ret |-> what the call      *)
(*    returned or raised]. The statements after a call that may raise are  *)
(*    an operator of their own, applied to the result of that call.        *)
(***************************************************************************)
EXTENDS Integers, Sequences, FiniteSets, TLC

VARIABLES
    mesh,   \* the Mesh object: a record of its fields
    last,   \* the call that produced this state: [op, arg, pre]
    ret     \* what that call returned or raised: [kind, val]

vars == <<mesh, last, ret>>

-----------------------------------------------------------------------------
(* Bounds of the model *)

\* rows per array in the compression lifecycle specification
MaxRows == 1
\* vertices per mesh in the engine specification
MaxVerts == 4
MaxFaces == 7
MaxIterations == 1
\* the longest sequence of engine calls on one mesh
MaxCalls == 3
\* fixed-point resolution: a coordinate x stands for x / Resolution; 0.5 is a grid point
HalfSteps == 1
Resolution == 2 * HalfSteps

-----------------------------------------------------------------------------
(* Python values *)

None == <<>>
Some(x) == <<x>>
IsNone(x) == x = <<>>
Val(x) == x[1]

Return(m, kind, val) == [mesh |-> m, ret |-> [kind |-> kind, val |-> val]]
Raise(m, exc) == [mesh |-> m, ret |-> [kind |-> "raise", val |-> exc]]
Raised(r) == r.ret.kind = "raise"

Min(a, b) == IF a <= b THEN a ELSE b
Max(a, b) == IF a >= b THEN a ELSE b
Abs(a) == IF a >= 0 THEN a ELSE -a

RECURSIVE SumSeq(_)
SumSeq(s) == IF s = <<>> THEN 0 ELSE Head(s) + SumSeq(Tail(s))

\* a[:, ::-1]: every row with its columns reversed (zyx <-> xyz)
ReverseCols(a) == [i \in 1..Len(a) |-> <<a[i][3], a[i][2], a[i][1]>>]

\* ndarray.nbytes of an (N,3) array of 4-byte items
nbytes(a) == 4 * 3 * Len(a)

-----------------------------------------------------------------------------
(* lz4.frame and the numpy buffer round trip *)

\* a.reshape(-1): the rows laid out one after the other
reshape_flat(a) == [i \in 1..(3 * Len(a)) |-> a[((i - 1) \div 3) + 1][((i - 1) % 3) + 1]]

\* np.frombuffer(buf, dtype).reshape((-1,3))
frombuffer_reshape(buf) == [i \in 1..(Len(buf) \div 3) |-> <<buf[3 * i - 2], buf[3 * i - 1], buf[3 * i]>>]

\* the frame header that lz4.frame.compress puts in front of the payload
LZ4_FRAME == -1

lz4_frame_compress(b) == <<LZ4_FRAME>> \o b

lz4_is_frame(b) == Len(b) > 0 /\ b[1] = LZ4_FRAME

lz4_frame_decompress(b) == Tail(b)

-----------------------------------------------------------------------------
(* The draco codec (dvidutils): lossy on positions *)

\* draco quantizes positions: here to whole units of the fixed-point grid
draco_quantize(x) == Resolution * ((2 * x + Resolution) \div (2 * Resolution))

draco_quantize_rows(a) == [i \in 1..Len(a) |-> <<draco_quantize(a[i][1]), draco_quantize(a[i][2]), draco_quantize(a[i][3])>>]

encode_faces_to_drc_bytes(vertices_xyz, normals_xyz, faces) ==
    [fmt |-> "drc", vertices_xyz |-> draco_quantize_rows(vertices_xyz),
     normals_xyz |-> normals_xyz, faces |-> faces,
     fragment_shape |-> None, fragment_origin |-> None]

encode_faces_to_custom_drc_bytes(vertices_xyz, normals_xyz, faces, fragment_shape, fragment_origin) ==
    [fmt |-> "custom_drc", vertices_xyz |-> draco_quantize_rows(vertices_xyz),
     normals_xyz |-> normals_xyz, faces |-> faces,
     fragment_shape |-> fragment_shape, fragment_origin |-> fragment_origin]

decode_drc_bytes_to_faces(draco_bytes) ==
    [vertices_xyz |-> draco_bytes.vertices_xyz, normals_xyz |-> draco_bytes.normals_xyz,
     faces |-> draco_bytes.faces]

\* len(draco_bytes): an empty mesh encodes to b''
draco_len(draco_bytes) ==
    IF Len(draco_bytes.vertices_xyz) = 0 THEN 0
    ELSE 1 + 3 * (Len(draco_bytes.vertices_xyz) + Len(draco_bytes.normals_xyz) + Len(draco_bytes.faces))

-----------------------------------------------------------------------------------------------------------------------------------------------------
(* Mesh: the compression state machine *)

\* a decoder that forgets to drop the blob it has decoded
draco_decoded_keeping_blob(m, d) ==
    [m EXCEPT !._faces = Some(d.faces),
              !._vertices_zyx = Some(ReverseCols(d.vertices_xyz)),
              !._normals_zyx = Some(ReverseCols(d.normals_xyz))]

draco_decoded(m, d) ==
    [m EXCEPT !._faces = Some(d.faces),
              !._vertices_zyx = Some(ReverseCols(d.vertices_xyz)),
              !._normals_zyx = Some(ReverseCols(d.normals_xyz)),
              !._draco_bytes = None]

_uncompress_from_draco(m) == draco_decoded(m, decode_drc_bytes_to_faces(Val(m._draco_bytes)))

\* a decoder that forgets to drop the items it has decoded
lz4_decoded_keeping_items(m, vertices_buf, normals_buf, faces_buf) ==
    [m EXCEPT !._vertices_zyx = Some(frombuffer_reshape(vertices_buf)),
              !._normals_zyx = Some(frombuffer_reshape(normals_buf)),
              !._faces = Some(frombuffer_reshape(faces_buf))]

\* data was compressed twice, so it is uncompressed twice
lz4_decoded(m, vertices_buf, normals_buf, faces_buf) ==
    [m EXCEPT !._lz4_items = None,
              !._vertices_zyx = Some(frombuffer_reshape(vertices_buf)),
              !._normals_zyx = Some(frombuffer_reshape(normals_buf)),
              !._faces = Some(frombuffer_reshape(faces_buf))]

\* a decoder that takes the buffers in the order vertices, faces, normals
_uncompress_from_lz4_swapped(m) ==
    [m EXCEPT !._lz4_items = None,
              !._vertices_zyx = Some(frombuffer_reshape(lz4_frame_decompress(lz4_frame_decompress(Val(m._lz4_items)[1])))),
              !._normals_zyx = Some(frombuffer_reshape(lz4_frame_decompress(lz4_frame_decompress(Val(m._lz4_items)[3])))),
              !._faces = Some(frombuffer_reshape(lz4_frame_decompress(lz4_frame_decompress(Val(m._lz4_items)[2]))))]

_uncompress_from_lz4(m) ==
    lz4_decoded(m, lz4_frame_decompress(lz4_frame_decompress(Val(m._lz4_items)[1])),
                   lz4_frame_decompress(lz4_frame_decompress(Val(m._lz4_items)[2])),
                   lz4_frame_decompress(lz4_frame_decompress(Val(m._lz4_items)[3])))

\* the three assertions that end _uncompress()
assert_arrays(m) ==
    IF IsNone(m._vertices_zyx) \/ IsNone(m._normals_zyx) \/ IsNone(m._faces)
    THEN Raise(m, "AssertionError")
    ELSE Return(m, "none", None)

_uncompress(m) ==
    assert_arrays(IF ~IsNone(m._draco_bytes) THEN _uncompress_from_draco(m)
                  ELSE IF ~IsNone(m._lz4_items) THEN _uncompress_from_lz4(m)
                  ELSE m)

\* the decorator of every array property
auto_uncompress(m) ==
    IF m._destroyed THEN Raise(m, "AssertionError")
    ELSE IF IsNone(m._vertices_zyx) THEN _uncompress(m)
    ELSE Return(m, "none", None)

\* property getters
get_vertices_zyx(r) == IF Raised(r) THEN r ELSE Return(r.mesh, "array", Val(r.mesh._vertices_zyx))
vertices_zyx(m) == get_vertices_zyx(auto_uncompress(m))

get_faces(r) == IF Raised(r) THEN r ELSE Return(r.mesh, "array", Val(r.mesh._faces))
faces(m) == get_faces(auto_uncompress(m))

get_normals_zyx(r) == IF Raised(r) THEN r ELSE Return(r.mesh, "array", Val(r.mesh._normals_zyx))
normals_zyx(m) == get_normals_zyx(auto_uncompress(m))

\* property setters
put_vertices_zyx(r, new_vertices_zyx) ==
    IF Raised(r) THEN r ELSE Return([r.mesh EXCEPT !._vertices_zyx = Some(new_vertices_zyx)], "none", None)
set_vertices_zyx(m, new_vertices_zyx) == put_vertices_zyx(auto_uncompress(m), new_vertices_zyx)

put_faces(r, new_faces) ==
    IF Raised(r) THEN r ELSE Return([r.mesh EXCEPT !._faces = Some(new_faces)], "none", None)
set_faces(m, new_faces) == put_faces(auto_uncompress(m), new_faces)

put_normals_zyx(r, new_normals_zyx) ==
    IF Raised(r) THEN r ELSE Return([r.mesh EXCEPT !._normals_zyx = Some(new_normals_zyx)], "none", None)
set_normals_zyx(m, new_normals_zyx) == put_normals_zyx(auto_uncompress(m), new_normals_zyx)

\* the arrays are dropped, the blob is kept, its length is returned
keep_draco_bytes(m, b) ==
    Return([m EXCEPT !._draco_bytes = Some(b),
                     !._vertices_zyx = None,
                     !._normals_zyx = None,
                     !._faces = None],
           "size", draco_len(b))

encode_as_draco(u) ==
    IF Raised(u) THEN u
    ELSE keep_draco_bytes(u.mesh, encode_faces_to_drc_bytes(ReverseCols(Val(u.mesh._vertices_zyx)),
                                                            ReverseCols(Val(u.mesh._normals_zyx)),
                                                            Val(u.mesh._faces)))

_compress_as_draco(m) ==
    IF IsNone(m._draco_bytes) THEN encode_as_draco(_uncompress(m))
    ELSE Return(m, "size", draco_len(Val(m._draco_bytes)))

encode_as_custom_draco(u) ==
    IF Raised(u) THEN u
    ELSE keep_draco_bytes(u.mesh, encode_faces_to_custom_drc_bytes(ReverseCols(Val(u.mesh._vertices_zyx)),
                                                                   ReverseCols(Val(u.mesh._normals_zyx)),
                                                                   Val(u.mesh._faces),
                                                                   u.mesh._fragment_shape,
                                                                   u.mesh._fragment_origin))

_compress_as_custom_draco(m) ==
    IF IsNone(m._draco_bytes) THEN encode_as_custom_draco(_uncompress(m))
    ELSE Return(m, "size", draco_len(Val(m._draco_bytes)))

\* sum(map(len, self._lz4_items))
lz4_items_len(items) == Len(items[1]) + Len(items[2]) + Len(items[3])

keep_lz4_items(m, items) ==
    Return([m EXCEPT !._vertices_zyx = None,
                     !._normals_zyx = None,
                     !._faces = None,
                     !._lz4_items = Some(items)],
           "size", lz4_items_len(items))

\* vertices, normals, faces: each compressed, and the result compressed again
encode_as_lz4(u) ==
    IF Raised(u) THEN u
    ELSE keep_lz4_items(u.mesh,
            <<lz4_frame_compress(lz4_frame_compress(reshape_flat(Val(u.mesh._vertices_zyx)))),
              lz4_frame_compress(lz4_frame_compress(reshape_flat(Val(u.mesh._normals_zyx)))),
              lz4_frame_compress(lz4_frame_compress(reshape_flat(Val(u.mesh._faces))))>>)

\* a compressor that compresses the stored items once more when called again
_compress_as_lz4_rewrapped(m) ==
    IF IsNone(m._lz4_items) THEN encode_as_lz4(_uncompress(m))
    ELSE keep_lz4_items(m, <<lz4_frame_compress(Val(m._lz4_items)[1]),
                             lz4_frame_compress(Val(m._lz4_items)[2]),
                             lz4_frame_compress(Val(m._lz4_items)[3])>>)

_compress_as_lz4(m) ==
    IF IsNone(m._lz4_items) THEN encode_as_lz4(_uncompress(m))
    ELSE Return(m, "size", lz4_items_len(Val(m._lz4_items)))

\* getattr(self, name) and setattr(self, name, value) of an array property
property(m, name) ==
    IF name = "vertices_zyx" THEN vertices_zyx(m)
    ELSE IF name = "faces" THEN faces(m)
    ELSE normals_zyx(m)

set_property(m, name, value) ==
    IF name = "vertices_zyx" THEN set_vertices_zyx(m, value)
    ELSE IF name = "faces" THEN set_faces(m, value)
    ELSE set_normals_zyx(m, value)

first_nbytes(a) == IF Raised(a) THEN a ELSE Return(a.mesh, "size", nbytes(a.ret.val))

sum_nbytes(a, b) == IF Raised(b) THEN b ELSE Return(b.mesh, "size", a.ret.val + nbytes(b.ret.val))

\* a + self.<name>.nbytes
add_nbytes(a, name) == IF Raised(a) THEN a ELSE sum_nbytes(a, property(a.mesh, name))

\* vertices_zyx.nbytes + faces.nbytes + normals_zyx.nbytes
compress_none(m) == add_nbytes(add_nbytes(first_nbytes(vertices_zyx(m)), "faces"), "normals_zyx")

compress(m, method) ==
    IF method = "None" THEN compress_none(m)
    ELSE IF method = "draco" THEN _compress_as_draco(m)
    ELSE IF method = "custom_draco" THEN _compress_as_custom_draco(m)
    ELSE IF method = "lz4" THEN _compress_as_lz4(m)
    ELSE Raise(m, "RuntimeError")

\* vertices_zyx.nbytes + normals_zyx.nbytes + faces.nbytes
uncompressed_size(m) == add_nbytes(add_nbytes(first_nbytes(vertices_zyx(m)), "normals_zyx"), "faces")

pickled(c) == IF Raised(c) THEN c ELSE Return(c.mesh, "state", None)

\* __getstate__
getstate(m) ==
    IF m.pickle_compression_method # "None"
    THEN pickled(compress(m, m.pickle_compression_method))
    ELSE Return(m, "state", None)

destroy(m) ==
    Return([m EXCEPT !._draco_bytes = None,
                     !._vertices_zyx = None,
                     !._faces = None,
                     !._normals_zyx = None,
                     !._destroyed = TRUE],
           "none", None)

-----------------------------------------------------------------------------
(* Array helpers *)

V(m) == Val(m._vertices_zyx)
F(m) == Val(m._faces)
N(m) == Val(m._normals_zyx)

\* the positions k of 1..n with keep[k], increasing
RECURSIVE KeptUpTo(_, _)
KeptUpTo(keep, n) == IF n = 0 THEN <<>> ELSE KeptUpTo(keep, n - 1) \o (IF keep[n] THEN <<n>> ELSE <<>>)

TakeRows(a, idx) == [i \in 1..Len(idx) |-> a[idx[i]]]

\* a[mask]: the rows of a at the positions where keep holds
MaskRows(a, keep) == TakeRows(a, KeptUpTo(keep, Len(a)))

\* every index of every face refers to a vertex
FacesInRange(fs, nverts) == \A j \in 1..Len(fs) : \A c \in 1..3 : fs[j][c] >= 0 /\ fs[j][c] < nverts

VecSub(u, v) == <<u[1] - v[1], u[2] - v[2], u[3] - v[3]>>
VecAdd(u, v) == <<u[1] + v[1], u[2] + v[2], u[3] + v[3]>>
VecScale(k, v) == <<k * v[1], k * v[2], k * v[3]>>
ZeroVec == <<0, 0, 0>>

\* x / d rounded to the nearest point of the fixed-point grid (d > 0)
RoundDiv(x, d) == (2 * x + d) \div (2 * d)

\* float -> int32 of astype(np.int32): truncation toward zero
astype_int32(x) == IF x >= 0 THEN x \div Resolution ELSE -((-x) \div Resolution)

\* np.ceil, still a float
np_ceil(x) == Resolution * (-((-x) \div Resolution))

RECURSIVE ColMin(_, _)
ColMin(a, c) == IF Len(a) = 1 THEN a[1][c] ELSE Min(a[1][c], ColMin(Tail(a), c))

RECURSIVE ColMax(_, _)
ColMax(a, c) == IF Len(a) = 1 THEN a[1][c] ELSE Max(a[1][c], ColMax(Tail(a), c))

-----------------------------------------------------------------------------
(* Mesh.__init__ *)

MAX_INT == 2147483647
MIN_INT == -MAX_INT - 1

\* np.array([v.min(axis=0), np.ceil(v.max(axis=0))]).astype(np.int32)
box_of_vertices(v) ==
    <<[c \in 1..3 |-> astype_int32(ColMin(v, c))],
      [c \in 1..3 |-> astype_int32(np_ceil(ColMax(v, c)))]>>

empty_box == <<[c \in 1..3 |-> MAX_INT], [c \in 1..3 |-> MIN_INT]>>

\* the asserts of the constructor, on the object it has filled in
constructed(m) ==
    IF m.pickle_compression_method \notin {"None", "lz4", "draco", "custom_draco"}
    THEN Raise(m, "AssertionError")
    ELSE IF Len(N(m)) # Len(V(m)) /\ Len(N(m)) # 0
    THEN Raise(m, "AssertionError")
    ELSE Return(m, "mesh", None)

\* normals_zyx, box, fragment_shape and fragment_origin are None or <<value>>
Mesh(vertices, fcs, normals, box, fragment_shape, fragment_origin, pickle_compression_method) ==
    constructed([_vertices_zyx |-> Some(vertices),
                 _faces |-> Some(fcs),
                 _normals_zyx |-> IF IsNone(normals) THEN Some(<<>>) ELSE normals,
                 _draco_bytes |-> None,
                 _lz4_items |-> None,
                 _destroyed |-> FALSE,
                 pickle_compression_method |-> pickle_compression_method,
                 _fragment_shape |-> fragment_shape,
                 _fragment_origin |-> fragment_origin,
                 normals |-> None,
                 box |-> IF ~IsNone(box) THEN Val(box)
                         ELSE IF Len(vertices) = 0 THEN empty_box
                         ELSE box_of_vertices(vertices)])

-----------------------------------------------------------------------------
(* normals.py *)

cross(u, v) == <<u[2] * v[3] - u[3] * v[2], u[3] * v[1] - u[1] * v[3], u[1] * v[2] - u[2] * v[1]>>

\* corners = vertices[face]; v1, v2 = np.diff(corners); np.cross(v2, v1)
face_normal(vertices, face) ==
    cross(VecSub(vertices[face[3] + 1], vertices[face[2] + 1]),
          VecSub(vertices[face[2] + 1], vertices[face[1] + 1]))

compute_face_normals_numpy(vertices, fs) == [j \in 1..Len(fs) |-> face_normal(vertices, fs[j])]

\* np.concatenate of the per-chunk results: of no arrays when there is no face
compute_face_normals(vertices, fs) ==
    IF ~FacesInRange(fs, Len(vertices)) THEN [kind |-> "raise", val |-> "IndexError"]
    ELSE IF Len(fs) = 0 THEN [kind |-> "raise", val |-> "ValueError"]
    ELSE [kind |-> "array", val |-> compute_face_normals_numpy(vertices, fs)]

RECURSIVE GCD(_, _)
GCD(a, b) == IF b = 0 THEN a ELSE GCD(b, a % b)

div_vector(v, g) == <<v[1] \div g, v[2] \div g, v[3] \div g>>

\* v / |v|: a unit vector is written as the primitive integer vector of its direction
unit_vector(v) ==
    IF v = ZeroVec THEN v
    ELSE div_vector(v, GCD(GCD(Abs(v[1]), Abs(v[2])), Abs(v[3])))

\* the sum, over the corners of the first j faces that are vertex i, of the face's normal
RECURSIVE corner_sum(_, _, _, _)
corner_sum(fs, face_normals, i, j) ==
    IF j = 0 THEN ZeroVec
    ELSE VecAdd(corner_sum(fs, face_normals, i, j - 1),
                VecScale(Cardinality({c \in 1..3 : fs[j][c] = i}), face_normals[j]))

compute_vertex_normals(vertices, fs, face_normals) ==
    [p \in 1..Len(vertices) |-> unit_vector(corner_sum(fs, face_normals, p - 1, Len(fs)))]

-----------------------------------------------------------------------------
(* Mesh: normals *)

drop_normals(m) == set_normals_zyx(m, <<>>)

\* the end of recompute_normals(): fs and fn are the faces kept and their normals
normals_from_faces(m, fs, fn) ==
    IF Len(fs) = 0
    THEN Return([m EXCEPT !._faces = Some(fs),
                          !._vertices_zyx = Some(<<>>),
                          !._normals_zyx = Some(<<>>)], "none", None)
    ELSE Return([m EXCEPT !._faces = Some(fs),
                          !._normals_zyx = Some(compute_vertex_normals(V(m), fs, fn))],
                "none", None)

\* good_faces = face_normals.any(axis=1)
good_faces(fn) == [j \in 1..Len(fn) |-> fn[j] # ZeroVec]

remove_degenerate(m, fn, remove_degenerate_faces) ==
    IF fn.kind = "raise" THEN Raise(m, fn.val)
    ELSE IF remove_degenerate_faces
    THEN normals_from_faces(m, MaskRows(F(m), good_faces(fn.val)), MaskRows(fn.val, good_faces(fn.val)))
    ELSE normals_from_faces(m, F(m), fn.val)

recompute_normals_of(r, remove_degenerate_faces) ==
    IF Raised(r) THEN r
    ELSE remove_degenerate(r.mesh, compute_face_normals(V(r.mesh), F(r.mesh)), remove_degenerate_faces)

recompute_normals(m, remove_degenerate_faces) == recompute_normals_of(auto_uncompress(m), remove_degenerate_faces)

-----------------------------------------------------------------------------
(* Mesh: stitching *)

\* the position of the first row equal to row p
first_index(vertices, p) ==
    CHOOSE q \in 1..p : vertices[q] = vertices[p] /\ \A q2 \in 1..(q - 1) : vertices[q2] # vertices[p]

is_duplicate(vertices) == [p \in 1..Len(vertices) |-> first_index(vertices, p) # p]

pairs_at(vertices, idx) == [i \in 1..Len(idx) |-> <<idx[i] - 1, first_index(vertices, idx[i]) - 1>>]

\* util.first_occurrences: for every row equal to an earlier row, the pair
\* <<its index, the index of the first row equal to it>> (indices from 0)
first_occurrences(vertices) == pairs_at(vertices, KeptUpTo(is_duplicate(vertices), Len(vertices)))

map_index(mapping_pairs, x) ==
    IF \E i \in 1..Len(mapping_pairs) : mapping_pairs[i][1] = x
    THEN mapping_pairs[CHOOSE i \in 1..Len(mapping_pairs) : mapping_pairs[i][1] = x][2]
    ELSE x

\* LabelMapper(dup_indices, orig_indices).apply_inplace(faces, allow_unmapped=True)
apply_mapping(mapping_pairs, fs) ==
    [j \in 1..Len(fs) |-> <<map_index(mapping_pairs, fs[j][1]),
                            map_index(mapping_pairs, fs[j][2]),
                            map_index(mapping_pairs, fs[j][3])>>]

used_vertices(fs) == {fs[j][c] : j \in 1..Len(fs), c \in 1..3}

\* drop_mask, by position (index + 1)
drop_mask(n, used) == [p \in 1..n |-> (p - 1) \notin used]

\* orig - cumulative_dupes[:-1]: every index less the number of vertices dropped below it
shiftmap(mask) == [p \in 1..Len(mask) |-> (p - 1) - Cardinality({q \in 1..(p - 1) : mask[q]})]

renumbered(fs, sm) == [j \in 1..Len(fs) |-> <<sm[fs[j][1] + 1], sm[fs[j][2] + 1], sm[fs[j][3] + 1]>>]

negated(mask) == [p \in 1..Len(mask) |-> ~mask[p]]

\* np.delete(self.normals_zyx, unused_vertices, axis=0), when there are normals
delete_normals(m, normals, mask) ==
    IF Len(normals) = 0 THEN Return(m, "none", None)
    ELSE IF \E p \in 1..Len(mask) : mask[p] /\ p > Len(normals) THEN Raise(m, "IndexError")
    ELSE Return([m EXCEPT !._normals_zyx =
                    Some(MaskRows(normals, [p \in 1..Len(normals) |-> p > Len(mask) \/ ~mask[p]]))],
                "none", None)

delete_unused(m, mask) ==
    IF ~FacesInRange(F(m), Len(V(m))) THEN Raise(m, "IndexError")
    ELSE delete_normals([m EXCEPT !._faces = Some(renumbered(F(m), shiftmap(mask))),
                                  !._vertices_zyx = Some(MaskRows(V(m), negated(mask)))],
                        N(m), mask)

drop_unused_vertices_of(r) ==
    IF Raised(r) THEN r
    ELSE delete_unused(r.mesh, drop_mask(Len(V(r.mesh)), used_vertices(F(r.mesh))))

drop_unused_vertices(m) == drop_unused_vertices_of(auto_uncompress(m))

sort_row(f) ==
    <<Min(f[1], Min(f[2], f[3])),
      f[1] + f[2] + f[3] - Min(f[1], Min(f[2], f[3])) - Max(f[1], Max(f[2], f[3])),
      Max(f[1], Max(f[2], f[3]))>>

\* the faces that are no repetition, up to the order of their indices, of an earlier face
_drop_duplicate_faces(fs) ==
    MaskRows(fs, [j \in 1..Len(fs) |-> ~(\E i \in 1..(j - 1) : sort_row(fs[i]) = sort_row(fs[j]))])

\* return value, once the statements before it have not raised
returning(r, value) == IF Raised(r) THEN r ELSE Return(r.mesh, "bool", value)

faces_deduplicated(m, drop_duplicate_faces) ==
    IF drop_duplicate_faces THEN [m EXCEPT !._faces = Some(_drop_duplicate_faces(F(m)))] ELSE m

\* a stitch that leaves the recomputation of the normals to its caller
normals_left_to_caller(m, need_normals) == Return(m, "none", None)

normals_if_needed(m, need_normals) ==
    IF need_normals THEN recompute_normals(m, TRUE) ELSE Return(m, "none", None)

stitch_deduplicate(r, need_normals, drop_duplicate_faces) ==
    IF Raised(r) THEN r
    ELSE returning(normals_if_needed(faces_deduplicated(r.mesh, drop_duplicate_faces), need_normals), TRUE)

\* drop_normals(), then the remapping of the faces
stitch_remapped(m, mapping_pairs) ==
    [m EXCEPT !._normals_zyx = Some(<<>>), !._faces = Some(apply_mapping(mapping_pairs, F(m)))]

stitch_unused(m, drop_unused) ==
    IF drop_unused THEN drop_unused_vertices(m) ELSE Return(m, "none", None)

stitch_pairs(m, need_normals, mapping_pairs, drop_unused, drop_duplicate_faces) ==
    IF Len(mapping_pairs) = 0
    THEN returning(normals_if_needed(m, need_normals), FALSE)
    ELSE stitch_deduplicate(stitch_unused(stitch_remapped(m, mapping_pairs), drop_unused),
                            need_normals, drop_duplicate_faces)

stitch_adjacent_faces_of(r, drop_unused, drop_duplicate_faces) ==
    IF Raised(r) THEN r
    ELSE stitch_pairs(r.mesh, Len(N(r.mesh)) > 0, first_occurrences(V(r.mesh)),
                      drop_unused, drop_duplicate_faces)

stitch_adjacent_faces(m, drop_unused, drop_duplicate_faces) ==
    stitch_adjacent_faces_of(auto_uncompress(m), drop_unused, drop_duplicate_faces)

-----------------------------------------------------------------------------
(* Mesh: Laplacian smoothing *)

\* the unique vertex adjacencies <<v1_id, v2_id>>, v1_id <= v2_id, of the faces
unique_edges(fs) ==
    {<<Min(fs[j][e[1]], fs[j][e[2]]), Max(fs[j][e[1]], fs[j][e[2]])>> :
        j \in 1..Len(fs), e \in {<<1, 2>>, <<2, 3>>, <<3, 1>>}}

\* np.bincount of the edge list: how often a vertex is mentioned
neighbor_count(edges, i) ==
    Cardinality({e \in edges : e[1] = i}) + Cardinality({e \in edges : e[2] = i})

RECURSIVE SumRows(_, _)
SumRowsFrom(vertices, idxs, i) == VecAdd(vertices[i + 1], SumRows(vertices, idxs \ {i}))
SumRows(vertices, idxs) ==
    IF idxs = {} THEN ZeroVec ELSE SumRowsFrom(vertices, idxs, CHOOSE i \in idxs : TRUE)

\* what np.add.at accumulates into vertex i: the vertices at the other end of its edges
neighbors_sum(vertices, edges, i) ==
    VecAdd(SumRows(vertices, {e[2] : e \in {e \in edges : e[1] = i}}),
           SumRows(vertices, {e[1] : e \in {e \in edges : e[2] = i}}))

div_rows(total, d) == <<RoundDiv(total[1], d), RoundDiv(total[2], d), RoundDiv(total[3], d)>>

\* one pass: every vertex becomes the mean of itself and of its neighbors' current positions
smooth_once(vertices, edges) ==
    [p \in 1..Len(vertices) |->
        div_rows(VecAdd(vertices[p], neighbors_sum(vertices, edges, p - 1)),
                 neighbor_count(edges, p - 1) + 1)]

RECURSIVE smooth_iterations(_, _, _)
smooth_iterations(vertices, edges, iterations) ==
    IF iterations = 0 THEN vertices
    ELSE smooth_iterations(smooth_once(vertices, edges), edges, iterations - 1)

\* assert self.normals_zyx.shape == self.vertices_zyx.shape
assert_normals_shape(r) ==
    IF Raised(r) THEN r
    ELSE IF Len(N(r.mesh)) # Len(V(r.mesh)) THEN Raise(r.mesh, "AssertionError")
    ELSE r

\* a smoothing that keeps the faces smoothing has flattened
smoothed_keeping_faces(m, iterations) ==
    IF ~FacesInRange(F(m), Len(V(m))) THEN Raise(m, "IndexError")
    ELSE assert_normals_shape(recompute_normals(
            [m EXCEPT !._vertices_zyx = Some(smooth_iterations(V(m), unique_edges(F(m)), iterations))],
            FALSE))

smoothed(m, iterations) ==
    IF ~FacesInRange(F(m), Len(V(m))) THEN Raise(m, "IndexError")
    ELSE assert_normals_shape(recompute_normals(
            [m EXCEPT !._vertices_zyx = Some(smooth_iterations(V(m), unique_edges(F(m)), iterations))],
            TRUE))

laplacian_smooth_of(r, iterations) ==
    IF Raised(r) THEN r
    ELSE IF iterations = 0 THEN normals_if_needed(r.mesh, Len(N(r.mesh)) = 0)
    ELSE smoothed([r.mesh EXCEPT !._normals_zyx = Some(<<>>)], iterations)

laplacian_smooth(m, iterations) == laplacian_smooth_of(auto_uncompress(m), iterations)

-----------------------------------------------------------------------------
(* External collaborators: the decimators and the plane-clip primitive.    *)
(* What they return is not decided by this code: a result is any mesh of   *)
(* the sets below, in xyz, chosen by the caller of the operator.           *)

first_faces_within(ft, k) == MaskRows(ft, [j \in 1..Len(ft) |-> \A c \in 1..3 : ft[j][c] < k])

\* the first k vertices, and the faces among the first t that use only those: a result
\* is the whole mesh, the mesh without its last vertex, or nothing
restrict_mesh(vertices, fs, k, t) ==
    [vertices |-> SubSeq(vertices, 1, k), faces |-> first_faces_within(SubSeq(fs, 1, t), k)]

external_results(vertices, fs) ==
    {restrict_mesh(vertices, fs, k, Len(fs)) : k \in {0, Max(0, Len(vertices) - 1), Len(vertices)}}

\* the vertices are on the kept side of the six planes of the fragment
within_fragment(vertices, min_box, max_box) ==
    \A p \in 1..Len(vertices) : \A c \in 1..3 :
        vertices[p][c] >= min_box[c] * Resolution /\ vertices[p][c] <= max_box[c] * Resolution

\* slice_mesh_plane by the six planes
clip_results(vertices, fs, min_box, max_box) ==
    {x \in external_results(vertices, fs) : within_fragment(x.vertices, min_box, max_box)}

shifted_faces(fs, num_vertices) ==
    [j \in 1..Len(fs) |-> <<fs[j][1] + num_vertices, fs[j][2] + num_vertices, fs[j][3] + num_vertices>>]

\* all_verts, all_faces of trim_subchunks: the clipped parts appended, the faces renumbered
appended(a, b) ==
    [vertices |-> a.vertices \o b.vertices, faces |-> a.faces \o shifted_faces(b.faces, Len(a.vertices))]

clip_results_subchunks(vertices, fs, min_box, max_box) ==
    {appended(a, b) : a \in clip_results(vertices, fs, min_box, max_box),
                      b \in {x \in clip_results(vertices, fs, min_box, max_box) : Len(x.vertices) <= 1}}

-----------------------------------------------------------------------------
(* Mesh: decimation. A fraction is None or <<<<numerator, denominator>>>>. *)

\* int(fraction * n)
int_fraction_of(fraction, n) == (Val(fraction)[1] * n) \div Val(fraction)[2]

is_one(fraction) == Val(fraction)[1] = Val(fraction)[2]

\* self.faces, self.vertices_zyx = what the decimator returned
decimated(m, result) ==
    [m EXCEPT !._faces = Some(result.faces), !._vertices_zyx = Some(ReverseCols(result.vertices))]

\* fraction is None or fraction == 1.0 or (len(self.faces) * fraction <= 4)
simplify_returns_early(m, fraction) ==
    IsNone(fraction) \/ is_one(fraction) \/ Len(F(m)) * Val(fraction)[1] <= 4 * Val(fraction)[2]

\* exit_code: of the fq-mesh-simplify process; result: the mesh it wrote
simplify_of(r, fraction, in_memory, exit_code, result) ==
    IF Raised(r) THEN r
    ELSE IF simplify_returns_early(r.mesh, fraction)
    THEN normals_if_needed(r.mesh, Len(N(r.mesh)) = 0)
    ELSE IF in_memory /\ exit_code # 0 THEN Raise(decimated(r.mesh, result), "RuntimeError")
    ELSE IF exit_code # 0 THEN Raise(r.mesh, "CalledProcessError")
    ELSE recompute_normals(decimated(r.mesh, result), TRUE)

simplify(m, fraction, in_memory, exit_code, result) ==
    simplify_of(auto_uncompress(m), fraction, in_memory, exit_code, result)

\* the decimator is not reached: no vertex, or fraction is None or 1.0
simplify_openmesh_returns_early(m, fraction) == Len(V(m)) = 0 \/ IsNone(fraction) \/ is_one(fraction)

\* max(4, int(fraction * len(vertices))) is a TypeError when fraction is None
simplify_openmesh_of(r, fraction, result) ==
    IF Raised(r) THEN r
    ELSE IF Len(V(r.mesh)) = 0 THEN Return(r.mesh, "none", None)
    ELSE IF IsNone(fraction) THEN Raise(r.mesh, "TypeError")
    ELSE IF simplify_openmesh_returns_early(r.mesh, fraction)
    THEN normals_if_needed(r.mesh, Len(N(r.mesh)) = 0)
    ELSE recompute_normals(decimated(r.mesh, result), TRUE)

simplify_openmesh(m, fraction, result) == simplify_openmesh_of(auto_uncompress(m), fraction, result)

\* resulting_faces > 5
simplify_open3d_decimates(m, fraction) == ~IsNone(fraction) /\ int_fraction_of(fraction, Len(F(m))) > 5

simplify_open3d_of(r, fraction, result) ==
    IF Raised(r) THEN r
    ELSE IF IsNone(fraction) THEN Raise(r.mesh, "TypeError")
    ELSE IF simplify_open3d_decimates(r.mesh, fraction)
    THEN Return(decimated(r.mesh, result), "none", None)
    ELSE Return(r.mesh, "none", None)

simplify_open3d(m, fraction, result) == simplify_open3d_of(auto_uncompress(m), fraction, result)

\* self.box = the box of the new vertices; the minimum of no vertex is an error
box_updated(m) ==
    IF Len(V(m)) = 0 THEN Raise(m, "ValueError")
    ELSE Return([m EXCEPT !.box = box_of_vertices(V(m))], "none", None)

\* num_faces > 4
simplify_pySimplify_decimates(m) == Len(F(m)) > 4

simplify_pySimplify_of(r, fraction, result) ==
    IF Raised(r) THEN r
    ELSE IF ~simplify_pySimplify_decimates(r.mesh) THEN Return(r.mesh, "none", None)
    ELSE IF IsNone(fraction) THEN Raise(r.mesh, "TypeError")
    ELSE box_updated(decimated(r.mesh, result))

simplify_pySimplify(m, fraction, result) == simplify_pySimplify_of(auto_uncompress(m), fraction, result)

-----------------------------------------------------------------------------
(* Mesh: chunk assembly *)

\* min(upper_bound, max(0, (x - offset) * upper_bound / fragment_shape + 0.5))
quantize_coordinate(x, offset, fragment_shape, upper_bound) ==
    Min(upper_bound * Resolution,
        Max(0, RoundDiv((x - offset * Resolution) * upper_bound, fragment_shape) + HalfSteps))

RECURSIVE Pow2(_)
Pow2(n) == IF n = 0 THEN 1 ELSE 2 * Pow2(n - 1)

quantized_rows(vertices_xyz, offset, fragment_shape, upper_bound) ==
    [p \in 1..Len(vertices_xyz) |->
        <<quantize_coordinate(vertices_xyz[p][1], offset[1], fragment_shape[1], upper_bound),
          quantize_coordinate(vertices_xyz[p][2], offset[2], fragment_shape[2], upper_bound),
          quantize_coordinate(vertices_xyz[p][3], offset[3], fragment_shape[3], upper_bound)>>]

quantized(m, upper_bound) ==
    IF Len(V(m)) = 0 THEN Raise(m, "IndexError")
    ELSE Return([m EXCEPT !._vertices_zyx =
                     Some(ReverseCols(quantized_rows(ReverseCols(V(m)), Val(m._fragment_origin),
                                                     Val(m._fragment_shape), upper_bound))),
                          !._fragment_origin = Some(<<0, 0, 0>>),
                          !._fragment_shape = Some(<<upper_bound, upper_bound, upper_bound>>)],
                "none", None)

quantize_of(r, upper_bound) == IF Raised(r) THEN r ELSE quantized(r.mesh, upper_bound)

quantize(m, position_quantization_bits) ==
    IF IsNone(m._fragment_shape) \/ IsNone(m._fragment_origin) THEN Raise(m, "AttributeError")
    ELSE quantize_of(auto_uncompress(m), Pow2(position_quantization_bits) - 1)

\* the end of trim() and of trim_subchunks(): result is what the planes left
trimmed(m, result) ==
    IF Len(result.vertices) > 0
    THEN box_updated(decimated(m, result))
    ELSE Return([m EXCEPT !._vertices_zyx = Some(<<>>),
                          !.normals = Some(<<>>),
                          !._faces = Some(<<>>)], "none", None)

trim_of(r, result) == IF Raised(r) THEN r ELSE trimmed(r.mesh, result)

\* trim(do_trim_subchunks=False) and trim(do_trim_subchunks=True), which differ in the result
trim(m, do_trim_subchunks, result) ==
    IF IsNone(m._fragment_shape) \/ IsNone(m._fragment_origin) THEN Raise(m, "TypeError")
    ELSE trim_of(auto_uncompress(m), result)

\* what trim() can be handed by the plane cuts of the arrays of m
trim_results(m, do_trim_subchunks) ==
    IF do_trim_subchunks
    THEN clip_results_subchunks(ReverseCols(V(m)), F(m), Val(m._fragment_origin),
                                VecAdd(Val(m._fragment_origin), Val(m._fragment_shape)))
    ELSE clip_results(ReverseCols(V(m)), F(m), Val(m._fragment_origin),
                      VecAdd(Val(m._fragment_origin), Val(m._fragment_shape)))

-----------------------------------------------------------------------------
(* concatenate_meshes *)

\* not normals_counts.any() or (vertex_counts == normals_counts).all()
_verify_concatenate_inputs(meshes) ==
    \/ \A i \in 1..Len(meshes) : Len(N(meshes[i])) = 0
    \/ \A i \in 1..Len(meshes) : Len(N(meshes[i])) = Len(V(meshes[i]))

RECURSIVE concat_rows(_, _)
concat_rows(arrays, n) == IF n = 0 THEN <<>> ELSE concat_rows(arrays, n - 1) \o arrays[n]

\* offsets that count the mesh itself
RECURSIVE vertex_offset_inclusive(_, _)
vertex_offset_inclusive(meshes, i) ==
    IF i = 1 THEN Len(V(meshes[1])) ELSE vertex_offset_inclusive(meshes, i - 1) + Len(V(meshes[i]))

RECURSIVE vertex_offset(_, _)
vertex_offset(meshes, i) == IF i = 1 THEN 0 ELSE vertex_offset(meshes, i - 1) + Len(V(meshes[i - 1]))

RECURSIVE BoxMin(_, _, _)
BoxMin(meshes, n, c) == IF n = 1 THEN meshes[1].box[1][c] ELSE Min(BoxMin(meshes, n - 1, c), meshes[n].box[1][c])

RECURSIVE BoxMax(_, _, _)
BoxMax(meshes, n, c) == IF n = 1 THEN meshes[1].box[2][c] ELSE Max(BoxMax(meshes, n - 1, c), meshes[n].box[2][c])

total_box(meshes) ==
    <<[c \in 1..3 |-> BoxMin(meshes, Len(meshes), c)], [c \in 1..3 |-> BoxMax(meshes, Len(meshes), c)]>>

\* the input meshes, read through their properties
uncompressed_inputs(meshes) == [i \in 1..Len(meshes) |-> auto_uncompress(meshes[i]).mesh]

concatenate_uncompressed(ms, keep_normals) ==
    IF keep_normals /\ ~_verify_concatenate_inputs(ms) THEN Raise(None, "RuntimeError")
    ELSE IF Len(ms) = 0 THEN Raise(None, "ValueError")
    ELSE Mesh(concat_rows([i \in 1..Len(ms) |-> V(ms[i])], Len(ms)),
              concat_rows([i \in 1..Len(ms) |-> shifted_faces(F(ms[i]), vertex_offset(ms, i))], Len(ms)),
              IF keep_normals THEN Some(concat_rows([i \in 1..Len(ms) |-> N(ms[i])], Len(ms))) ELSE None,
              Some(total_box(ms)), None, None, "lz4")

\* the result has no object when the call raises
concatenate_meshes(meshes, keep_normals) ==
    IF \E i \in 1..Len(meshes) : Raised(auto_uncompress(meshes[i])) THEN Raise(None, "AssertionError")
    ELSE concatenate_uncompressed(uncompressed_inputs(meshes), keep_normals)

-----------------------------------------------------------------------------
(* Mesh.serialize *)

(* ngmesh.py: the flat binary format is the vertex count, the vertex        *)
(* coordinates one after the other (x, y, z of each vertex), then the face *)
(* indices one after the other.                                            *)

write_ngmesh(vertices_xyz, fcs) ==
    <<Len(vertices_xyz)>> \o reshape_flat(vertices_xyz) \o reshape_flat(fcs)

\* the count read first says where the vertex array ends
ngmesh_count(data) == data[1]

read_ngmesh(data) ==
    [vertices_xyz |-> frombuffer_reshape(SubSeq(data, 2, 1 + 3 * ngmesh_count(data))),
     faces |-> frombuffer_reshape(SubSeq(data, 2 + 3 * ngmesh_count(data), Len(data)))]

MESH_FORMATS == {"obj", "drc", "custom_drc", "ngmesh"}

\* the bytes returned, or None when they went to the file at path
serialized(m, has_path, fmt, data) ==
    IF has_path THEN Return(m, "none", None) ELSE Return(m, "bytes", [fmt |-> fmt, data |-> data])

serialize_encoded(r, has_path, fmt) ==
    IF Raised(r) THEN r
    ELSE IF fmt = "drc"
    THEN serialized(r.mesh, has_path, fmt,
                    encode_faces_to_drc_bytes(ReverseCols(V(r.mesh)), ReverseCols(N(r.mesh)), F(r.mesh)))
    ELSE serialized(r.mesh, has_path, fmt,
                    encode_faces_to_custom_drc_bytes(ReverseCols(V(r.mesh)), ReverseCols(N(r.mesh)), F(r.mesh),
                                                     r.mesh._fragment_shape, r.mesh._fragment_origin))

serialize_arrays(r, has_path, fmt) ==
    IF Raised(r) THEN r
    ELSE IF fmt \in {"drc", "custom_drc"}
    THEN serialize_encoded(normals_if_needed(r.mesh, Len(N(r.mesh)) = 0), has_path, fmt)
    ELSE IF fmt = "obj"
    THEN serialized(r.mesh, has_path, fmt, <<ReverseCols(V(r.mesh)), F(r.mesh), ReverseCols(N(r.mesh))>>)
    ELSE serialized(r.mesh, has_path, fmt, write_ngmesh(ReverseCols(V(r.mesh)), F(r.mesh)))

\* the body of serialize() after the shortcut for the empty mesh
serialize_as(m, has_path, fmt) ==
    IF fmt \in {"drc", "custom_drc"} /\ ~IsNone(m._draco_bytes)
    THEN serialized(m, has_path, fmt, Val(m._draco_bytes))
    ELSE serialize_arrays(auto_uncompress(m), has_path, fmt)

serialize_nonempty(r, has_path, fmt) ==
    IF Raised(r) THEN r
    ELSE IF Len(r.ret.val) = 0 THEN serialized(r.mesh, has_path, fmt, <<>>)
    ELSE serialize_as(r.mesh, has_path, fmt)

\* when the blob is b'', empty_mesh is True, which is not == 0: no shortcut
serialize(m, has_path, fmt) ==
    IF fmt \notin MESH_FORMATS THEN Raise(m, "AssertionError")
    ELSE IF ~IsNone(m._draco_bytes) /\ draco_len(Val(m._draco_bytes)) = 0
    THEN serialize_as(m, has_path, fmt)
    ELSE serialize_nonempty(vertices_zyx(m), has_path, fmt)

-----------------------------------------------------------------------------
(* What a state remembers of the call that led to it *)

no_arrays(m) == IsNone(m._vertices_zyx) /\ IsNone(m._faces) /\ IsNone(m._normals_zyx)

all_arrays(m) == ~IsNone(m._vertices_zyx) /\ ~IsNone(m._faces) /\ ~IsNone(m._normals_zyx)

\* which representation holds the data: "mixed" when it is not exactly one
compression_state(m) ==
    IF ~IsNone(m._lz4_items) /\ IsNone(m._draco_bytes) /\ no_arrays(m) THEN "lz4"
    ELSE IF ~IsNone(m._draco_bytes) /\ IsNone(m._lz4_items) /\ no_arrays(m) THEN Val(m._draco_bytes).fmt
    ELSE IF IsNone(m._draco_bytes) /\ IsNone(m._lz4_items) /\ all_arrays(m) THEN "uncompressed"
    ELSE IF IsNone(m._draco_bytes) /\ IsNone(m._lz4_items) /\ no_arrays(m) THEN "nothing"
    ELSE "mixed"

has_duplicate_vertices(vertices) == \E p, q \in 1..Len(vertices) : p # q /\ vertices[p] = vertices[q]

summary(m) ==
    [state |-> compression_state(m),
     destroyed |-> m._destroyed,
     has_normals |-> ~IsNone(m._normals_zyx) /\ Len(N(m)) > 0,
     has_duplicates |-> ~IsNone(m._vertices_zyx) /\ has_duplicate_vertices(V(m))]

\* the argument of a call: a name (of a method, a format, an array) and a value
Arg(name, value) == [name |-> name, value |-> value]

NoArg == Arg("", <<>>)

\* the step of a call: the object afterwards, the call, the call before it and what
\* was known of the object before the call
Step(op, arg, r) ==
    /\ mesh' = r.mesh
    /\ ret' = r.ret
    /\ last' = [op |-> op, arg |-> arg, prev |-> last.op, calls |-> 0, pre |-> summary(mesh)]

\* the state after the constructor has returned r
Constructed(r) ==
    /\ ~Raised(r)
    /\ mesh = r.mesh
    /\ ret = r.ret
    /\ last = [op |-> "__init__", arg |-> NoArg, prev |-> "", calls |-> 0, pre |-> summary(r.mesh)]

-----------------------------------------------------------------------------
(* The compression lifecycle: one Mesh, any sequence of calls *)

\* the rows an array of the given name is made of
RowsC(name) ==
    IF name = "vertices_zyx" THEN {<<1, 2, 3>>}
    ELSE IF name = "faces" THEN {<<0, 0, 0>>}
    ELSE {<<0, 0, 1>>}

RECURSIVE SeqsUpTo(_, _)
SeqsUpTo(S, n) ==
    IF n = 0 THEN {<<>>}
    ELSE SeqsUpTo(S, n - 1) \cup {Append(s, x) : s \in {t \in SeqsUpTo(S, n - 1) : Len(t) = n - 1}, x \in S}

ArraysC(name) == SeqsUpTo(RowsC(name), MaxRows)

Methods == {"None", "lz4", "draco", "custom_draco", "zip"}

ArrayNames == {"vertices_zyx", "faces", "normals_zyx"}

InitLifecycle ==
    \E v \in ArraysC("vertices_zyx"), f \in ArraysC("faces"),
       n \in {None} \cup {Some(a) : a \in ArraysC("normals_zyx")},
       pm \in {"None", "lz4", "draco", "custom_draco"} :
        Constructed(Mesh(v, f, n, None, Some(<<2, 2, 2>>), Some(<<0, 0, 0>>), pm))

Compress == \E method \in Methods : Step("compress", Arg(method, <<>>), compress(mesh, method))

GetState == Step("__getstate__", NoArg, getstate(mesh))

Read == \E name \in ArrayNames : Step("read", Arg(name, <<>>), property(mesh, name))

Write ==
    \E name \in ArrayNames : \E a \in ArraysC(name) :
        Step("write", Arg(name, a), set_property(mesh, name, a))

Destroy == Step("destroy", NoArg, destroy(mesh))

UncompressedSize == Step("uncompressed_size", NoArg, uncompressed_size(mesh))

Serialize ==
    \E fmt \in MESH_FORMATS \cup {"stl"}, has_path \in BOOLEAN :
        Step("serialize", Arg(fmt, <<>>), serialize(mesh, has_path, fmt))

NextLifecycle ==
    \/ Compress
    \/ GetState
    \/ Read
    \/ Write
    \/ Destroy
    \/ UncompressedSize
    \/ Serialize

SpecLifecycle == InitLifecycle /\ [][NextLifecycle]_vars

-----------------------------------------------------------------------------
(* The mesh engine: one uncompressed Mesh, any sequence of engine calls *)

\* the step of an engine call, one of at most MaxCalls: it keeps count of the calls
\* and no memory of the call before it
Call(op, name, r) ==
    /\ last.calls < MaxCalls
    /\ mesh' = r.mesh
    /\ ret' = r.ret
    /\ last' = [op |-> op, arg |-> Arg(name, <<>>), prev |-> "", calls |-> last.calls + 1,
                pre |-> summary(mesh)]

RECURSIVE Copies(_, _)
Copies(row, k) == IF k = 0 THEN <<>> ELSE Append(Copies(row, k - 1), row)

\* vertex positions (zyx, fixed point): not collinear, one with a negative coordinate
\* that is no integer
Points == <<<<0, 0, 0>>, <<0, 2, 0>>, <<-1, 2, 4>>>>

\* the vertex arrays: no vertex, or the first k positions and then d copies of one of them
VertexArrays ==
    {<<>>} \cup
    {SubSeq(Points, 1, x[1]) \o Copies(Points[x[2]], x[3]) :
        x \in {y \in (1..Len(Points)) \X (1..Len(Points)) \X (0..MaxVerts) :
                  y[2] <= y[1] /\ y[1] + y[3] <= MaxVerts}}

\* how many faces of a kind a face array holds
FaceCounts == {0, 1, MaxFaces}

\* the face arrays of a mesh of n vertices: triangles <<0, 1, 2>>, triangles <<1, 2, 3>>
\* and faces <<0, 0, 1>> of no area
FaceArrays(n) ==
    {Copies(<<0, 1, 2>>, g) \o Copies(<<1, 2, 3>>, h) \o Copies(<<0, 0, 1>>, d) :
        g \in IF n >= 3 THEN FaceCounts ELSE {0},
        h \in IF n >= 4 THEN 0..1 ELSE {0},
        d \in IF n >= 2 THEN 0..1 ELSE {0}}

\* normals as a caller may give them: none, or one unit vector per vertex
NormalsFor(vertices) == {None, Some(Copies(<<0, 0, 1>>, Len(vertices)))}

Fragments == {None, Some(<<<<2, 2, 2>>, <<0, 0, 0>>>>)}

fragment_shape_of(fragment) == IF IsNone(fragment) THEN None ELSE Some(Val(fragment)[1])

fragment_origin_of(fragment) == IF IsNone(fragment) THEN None ELSE Some(Val(fragment)[2])

InitEngine ==
    \E v \in VertexArrays : \E f \in FaceArrays(Len(v)) :
        \E n \in NormalsFor(v), fragment \in Fragments :
            Constructed(Mesh(v, f, n, None, fragment_shape_of(fragment), fragment_origin_of(fragment), "lz4"))

Fractions == {None, Some(<<1, 1>>), Some(<<9, 10>>)}

QuantizationBits == {1}

no_result == [vertices |-> <<>>, faces |-> <<>>]

\* what a decimator may hand back for the arrays of the mesh, when it is called
Decimations(called) == IF called THEN external_results(ReverseCols(V(mesh)), F(mesh)) ELSE {no_result}

\* how the fq-mesh-simplify process ends and how it is run, when it is run
ExitCodes(called) == IF called THEN {0, 1} ELSE {0}

InMemory(called) == IF called THEN BOOLEAN ELSE {FALSE}

\* what the plane cuts may hand back; without a fragment trim() raises before any cut
Cuts(do_trim_subchunks) ==
    IF IsNone(mesh._fragment_shape) \/ IsNone(mesh._fragment_origin)
    THEN {no_result}
    ELSE trim_results(mesh, do_trim_subchunks)

\* the meshes a caller concatenates with this one
OtherMeshes ==
    {Mesh(<<Points[1]>>, <<>>, n, None, None, None, "lz4").mesh : n \in NormalsFor(<<Points[1]>>)}

MeshLists == {<<>>, <<mesh>>} \cup {<<mesh, o>> : o \in OtherMeshes}

RECURSIVE count_vertices(_, _)
count_vertices(meshes, n) == IF n = 0 THEN 0 ELSE count_vertices(meshes, n - 1) + Len(V(meshes[n]))

\* the new object when there is one, else the old one
concatenated(r) == IF Raised(r) THEN [mesh |-> mesh, ret |-> r.ret] ELSE r

StitchAdjacentFaces ==
    \E drop_unused \in BOOLEAN, drop_duplicate_faces \in BOOLEAN :
        Call("stitch_adjacent_faces", "",
             stitch_adjacent_faces(mesh, drop_unused, drop_duplicate_faces))

DropUnusedVertices == Call("drop_unused_vertices", "", drop_unused_vertices(mesh))

DropNormals == Call("drop_normals", "", drop_normals(mesh))

RecomputeNormals ==
    \E remove_degenerate_faces \in BOOLEAN :
        Call("recompute_normals", "", recompute_normals(mesh, remove_degenerate_faces))

LaplacianSmooth ==
    \E iterations \in 0..MaxIterations :
        Call("laplacian_smooth", "", laplacian_smooth(mesh, iterations))

Simplify ==
    \E fraction \in Fractions :
        \E in_memory \in InMemory(~simplify_returns_early(mesh, fraction)),
           exit_code \in ExitCodes(~simplify_returns_early(mesh, fraction)),
           result \in Decimations(~simplify_returns_early(mesh, fraction)) :
        Call("simplify", "", simplify(mesh, fraction, in_memory, exit_code, result))

SimplifyOpenmesh ==
    \E fraction \in Fractions : \E result \in Decimations(~simplify_openmesh_returns_early(mesh, fraction)) :
        Call("simplify_openmesh", "", simplify_openmesh(mesh, fraction, result))

SimplifyOpen3d ==
    \E fraction \in Fractions : \E result \in Decimations(simplify_open3d_decimates(mesh, fraction)) :
        Call("simplify_open3d", "", simplify_open3d(mesh, fraction, result))

SimplifyPySimplify ==
    \E fraction \in Fractions : \E result \in Decimations(simplify_pySimplify_decimates(mesh)) :
        Call("simplify_pySimplify", "", simplify_pySimplify(mesh, fraction, result))

Quantize ==
    \E position_quantization_bits \in QuantizationBits :
        Call("quantize", "", quantize(mesh, position_quantization_bits))

Trim ==
    \E do_trim_subchunks \in BOOLEAN : \E result \in Cuts(do_trim_subchunks) :
        /\ Len(result.vertices) <= MaxVerts
        /\ Len(result.faces) <= MaxFaces + 2
        /\ Call("trim", "", trim(mesh, do_trim_subchunks, result))

ConcatenateMeshes ==
    \E meshes \in MeshLists, keep_normals \in BOOLEAN :
        /\ count_vertices(meshes, Len(meshes)) <= MaxVerts
        /\ Call("concatenate_meshes", "", concatenated(concatenate_meshes(meshes, keep_normals)))

NextEngine ==
    \/ StitchAdjacentFaces
    \/ DropUnusedVertices
    \/ DropNormals
    \/ RecomputeNormals
    \/ LaplacianSmooth
    \/ Simplify
    \/ SimplifyOpenmesh
    \/ SimplifyOpen3d
    \/ SimplifyPySimplify
    \/ Quantize
    \/ Trim
    \/ ConcatenateMeshes

SpecEngine == InitEngine /\ [][NextEngine]_vars

-----------------------------------------------------------------------------
(* Properties of the compression lifecycle *)

Compressed == {"lz4", "drc", "custom_drc"}

\* C1: a mesh that has not been destroyed holds its data in exactly one
\* representation after any sequence of calls: the three arrays and no blob,
\* or the lz4 items alone, or the draco bytes alone.
C1_OneRepresentation ==
    ~mesh._destroyed => compression_state(mesh) \in Compressed \cup {"uncompressed"}

\* a draco-compressed mesh has been compressed again, with lz4
C1_Witness ==
    /\ ~mesh._destroyed
    /\ last.op = "compress" /\ last.arg.name = "lz4" /\ last.pre.state = "drc"
    /\ compression_state(mesh) = "lz4"

\* the blob and the size compress(method) must produce from the arrays of m
encodes(m, method, m2, size) ==
    IF method = "lz4"
    THEN /\ m2._lz4_items = Some(<<lz4_frame_compress(lz4_frame_compress(reshape_flat(V(m)))),
                                   lz4_frame_compress(lz4_frame_compress(reshape_flat(N(m)))),
                                   lz4_frame_compress(lz4_frame_compress(reshape_flat(F(m))))>>)
         /\ IsNone(m2._draco_bytes)
         /\ size = lz4_items_len(Val(m2._lz4_items))
    ELSE /\ m2._draco_bytes =
                Some(IF method = "draco"
                     THEN encode_faces_to_drc_bytes(ReverseCols(V(m)), ReverseCols(N(m)), F(m))
                     ELSE encode_faces_to_custom_drc_bytes(ReverseCols(V(m)), ReverseCols(N(m)), F(m),
                                                           m._fragment_shape, m._fragment_origin))
         /\ IsNone(m2._lz4_items)
         /\ size = draco_len(Val(m2._draco_bytes))

\* the array of the given name, of an uncompressed mesh
array_of(m, name) ==
    IF name = "vertices_zyx" THEN V(m) ELSE IF name = "faces" THEN F(m) ELSE N(m)

\* C2: a read or a write of an array of a compressed mesh that has not been
\* destroyed succeeds and leaves the mesh uncompressed, with no blob; a write
\* stores the value written; and a compress(method) that follows a write
\* returns the size of, and keeps, the encoding of the arrays as written.
C2_AccessUncompresses ==
    [][/\ (last'.op \in {"read", "write"} /\ ~last'.pre.destroyed /\ last'.pre.state \in Compressed)
            => (ret'.kind # "raise" /\ compression_state(mesh') = "uncompressed")
       /\ (last'.op = "write" /\ ret'.kind # "raise")
            => array_of(mesh', last'.arg.name) = last'.arg.value
       /\ (last'.op = "compress" /\ last'.prev = "write" /\ ret.kind # "raise"
             /\ last'.arg.name \in {"lz4", "draco", "custom_draco"})
            => (ret'.kind = "size" /\ encodes(mesh, last'.arg.name, mesh', ret'.val))]_vars

\* a compressed mesh has been written to, and then compressed with draco
C2_Witness ==
    /\ last.op = "compress" /\ last.arg.name = "draco" /\ last.prev = "write"
    /\ ret.kind = "size" /\ compression_state(mesh) = "drc"
    /\ Len(Val(mesh._draco_bytes).vertices_xyz) > 0

\* the size of the blob a compressed mesh stores
stored_size(m) ==
    IF compression_state(m) = "lz4" THEN lz4_items_len(Val(m._lz4_items)) ELSE draco_len(Val(m._draco_bytes))

\* C3: compress(method) on a mesh that is compressed by that method changes
\* nothing, returns the size of the stored blob, and returns what the call
\* before it returned when that was a compress by the same method.
C3_CompressIdempotent ==
    [][(/\ last'.op = "compress"
        /\ \/ last'.arg.name = "lz4" /\ compression_state(mesh) = "lz4"
           \/ last'.arg.name = "draco" /\ compression_state(mesh) = "drc"
           \/ last'.arg.name = "custom_draco" /\ compression_state(mesh) = "custom_drc")
       => /\ mesh' = mesh
          /\ ret'.kind = "size" /\ ret'.val = stored_size(mesh)
          /\ (last.op = "compress" /\ last.arg.name = last'.arg.name /\ ret.kind = "size") => ret' = ret]_vars

\* compress('lz4') has been called on a mesh already compressed with lz4
C3_Witness ==
    /\ last.op = "compress" /\ last.arg.name = "lz4" /\ last.prev = "compress"
    /\ last.pre.state = "lz4" /\ ret.kind = "size"
    /\ lz4_items_len(Val(mesh._lz4_items)) > 6

\* C4: after destroy() the mesh owns no buffer: the three arrays, the draco
\* bytes and the lz4 items are all None, and the mesh is marked destroyed.
C4_DestroyDropsAll ==
    last.op = "destroy" =>
        /\ mesh._destroyed
        /\ no_arrays(mesh) /\ IsNone(mesh._draco_bytes) /\ IsNone(mesh._lz4_items)

\* C5: on a destroyed mesh every read, write, compress(method),
\* uncompressed_size() and serialize() raises, and none restores the arrays.
C5_DestroyedAccessRaises ==
    (last.pre.destroyed /\ last.op \in {"read", "write", "compress", "uncompressed_size", "serialize"})
        => (ret.kind = "raise" /\ no_arrays(mesh))

\* C6: compress('lz4') is lossless: the arrays read back from the mesh it
\* has compressed are the arrays the mesh held before the call.
C6_Lz4Lossless ==
    [][(last'.op = "compress" /\ last'.arg.name = "lz4" /\ ret'.kind = "size"
          /\ ~mesh._destroyed /\ compression_state(mesh) = "uncompressed")
       => /\ compression_state(mesh') = "lz4"
          /\ vertices_zyx(mesh').ret.kind = "array" /\ vertices_zyx(mesh').ret.val = V(mesh)
          /\ faces(mesh').ret.kind = "array" /\ faces(mesh').ret.val = F(mesh)
          /\ normals_zyx(mesh').ret.kind = "array" /\ normals_zyx(mesh').ret.val = N(mesh)]_vars

\* the normals of a mesh with vertices, faces and normals have been read from its lz4 items
C6_Witness ==
    /\ last.op = "read" /\ last.arg.name = "normals_zyx" /\ last.prev = "compress"
    /\ last.pre.state = "lz4" /\ ~last.pre.destroyed
    /\ ret.kind = "array" /\ Len(ret.val) > 0 /\ Len(V(mesh)) > 0 /\ Len(F(mesh)) > 0

-----------------------------------------------------------------------------
(* Properties of the mesh engine *)

\* C7: after any sequence of engine calls the number of normals is 0 or equals
\* the number of vertices (stated for the states a call has returned to).
C7_NormalsMatchVertices ==
    ret.kind # "raise" => (Len(N(mesh)) = 0 \/ Len(N(mesh)) = Len(V(mesh)))

\* the box of m contains vertex p: per axis, box min <= coordinate <= box max
box_contains(m, p) ==
    \A c \in 1..3 : m.box[1][c] * Resolution <= V(m)[p][c] /\ V(m)[p][c] <= m.box[2][c] * Resolution

\* C8: the box of an uncompressed mesh with at least one vertex contains every
\* vertex: after the constructor computed it, and after every engine call.
C8_BoxContainsVertices ==
    ret.kind # "raise" => \A p \in 1..Len(V(mesh)) : box_contains(mesh, p)

\* C9: on a mesh without duplicate vertices stitch_adjacent_faces returns
\* False and leaves the vertex array and the face array as they were
\* (stated for the meshes that have a face).
C9_StitchNoDuplicatesIsNoop ==
    [][(last'.op = "stitch_adjacent_faces" /\ ~has_duplicate_vertices(V(mesh)) /\ Len(F(mesh)) > 0)
       => /\ ret'.kind = "bool" /\ ret'.val = FALSE
          /\ V(mesh') = V(mesh)
          /\ F(mesh') = F(mesh)]_vars

\* the step is a stitch_adjacent_faces that has returned True
StitchReturnedTrue == last'.op = "stitch_adjacent_faces" /\ ret'.kind = "bool" /\ ret'.val = TRUE

\* the normals of m are those recompute_normals(True) computes from its vertices and
\* faces: one per vertex, from faces that all have an area, or nothing is left of m
normals_are_recomputed(m) ==
    IF Len(F(m)) = 0 THEN Len(V(m)) = 0 /\ Len(N(m)) = 0
    ELSE /\ \A j \in 1..Len(F(m)) : face_normal(V(m), F(m)[j]) # ZeroVec
         /\ Len(N(m)) = Len(V(m))
         /\ N(m) = compute_vertex_normals(V(m), F(m), compute_face_normals_numpy(V(m), F(m)))

\* C10 (as the code has it): when stitch_adjacent_faces returns True the old
\* normals are gone; a mesh that had no normals has none, and a mesh that had
\* normals has the normals recomputed from the stitched vertices and faces.
C10_StitchRecomputesNormals ==
    [][StitchReturnedTrue
       => IF Len(N(mesh)) = 0 THEN Len(N(mesh')) = 0 ELSE normals_are_recomputed(mesh')]_vars

\* a mesh with normals has been stitched and has normals again
C10_Witness ==
    /\ last.op = "stitch_adjacent_faces" /\ ret.kind = "bool" /\ ret.val = TRUE
    /\ last.pre.has_normals /\ last.pre.has_duplicates
    /\ Len(N(mesh)) > 0 /\ N(mesh)[1] # <<0, 0, 1>>

\* C10 (as stated): whenever stitch_adjacent_faces returns True the mesh has
\* no normals when the call returns, whether or not it had normals before.
C10_StitchLeavesNoNormals ==
    [][StitchReturnedTrue => Len(N(mesh')) = 0]_vars

-----------------------------------------------------------------------------
(* One call on a freshly constructed mesh *)

\* the step of a single call on the constructed object: the state remembers the
\* arguments of the call, the object it was made on among them
Apply(op, args, r) ==
    /\ last.op = "__init__"
    /\ mesh' = r.mesh
    /\ ret' = r.ret
    /\ last' = [op |-> op, arg |-> Arg(op, args), prev |-> last.op, calls |-> 1, pre |-> summary(mesh)]

\* the arguments of the call that led to this state
Args == last.arg.value

\* no call has been made on the constructed object yet
Fresh == last.op = "__init__"

-----------------------------------------------------------------------------
(* stitch_adjacent_faces on its own *)

MaxStitchVerts == 3

\* four positions, no three of the first three on a line
StitchPoints == Points \o <<<<2, 0, 0>>>>

\* two triangles that share an edge, each with vertices of its own
TwoTriangles ==
    <<StitchPoints[1], StitchPoints[2], StitchPoints[3], StitchPoints[2], StitchPoints[3], StitchPoints[4]>>

StitchVertexArrays ==
    SeqsUpTo({StitchPoints[i] : i \in 1..Len(StitchPoints)}, MaxStitchVerts) \cup {TwoTriangles}

\* faces of a mesh of n vertices
StitchFaces(n) ==
    {f \in {<<0, 0, 1>>, <<1, 0, 1>>, <<0, 1, 2>>, <<2, 1, 0>>, <<1, 2, 0>>, <<3, 4, 5>>, <<1, 2, 3>>} :
        \A c \in 1..3 : f[c] < n}

StitchFaceArrays(n) == SeqsUpTo(StitchFaces(n), 2)

InitStitch ==
    \E v \in StitchVertexArrays : \E f \in StitchFaceArrays(Len(v)) : \E n \in NormalsFor(v) :
        Constructed(Mesh(v, f, n, None, None, None, "lz4"))

StitchOnce ==
    Fresh /\ \E drop_unused \in BOOLEAN, drop_duplicate_faces \in BOOLEAN :
        Apply("stitch_adjacent_faces",
              [self |-> mesh, drop_unused_vertices |-> drop_unused, drop_duplicate_faces |-> drop_duplicate_faces],
              stitch_adjacent_faces(mesh, drop_unused, drop_duplicate_faces))

DropUnusedOnce ==
    Fresh /\ Apply("drop_unused_vertices", [self |-> mesh], drop_unused_vertices(mesh))

NextStitch == StitchOnce \/ DropUnusedOnce

SpecStitch == InitStitch /\ [][NextStitch]_vars

\* the rows of a that are the first of their value, in their order
distinct_rows(a) == MaskRows(a, [p \in 1..Len(a) |-> \A q \in 1..(p - 1) : a[q] # a[p]])

\* the three positions a face refers to
corners(vertices, f) == <<vertices[f[1] + 1], vertices[f[2] + 1], vertices[f[3] + 1]>>

every_vertex_referenced(m) == \A p \in 1..Len(V(m)) : (p - 1) \in used_vertices(F(m))

\* a state stitch_adjacent_faces(drop_unused_vertices=True) has led to, from a mesh
\* whose vertices are all referenced by a face
StitchedReferenced ==
    /\ last.op = "stitch_adjacent_faces"
    /\ Args.drop_unused_vertices
    /\ every_vertex_referenced(Args.self)

\* one vertex per position of m0, in the order of first occurrence, and every face
\* of m refers to the three positions of a face of m0; face for face when none is dropped
canonical(m0, m, faces_kept) ==
    /\ V(m) = distinct_rows(V(m0))
    /\ \A j \in 1..Len(F(m)) : \E i \in 1..Len(F(m0)) : corners(V(m), F(m)[j]) = corners(V(m0), F(m0)[i])
    /\ faces_kept =>
         /\ Len(F(m)) = Len(F(m0))
         /\ \A j \in 1..Len(F(m)) : corners(V(m), F(m)[j]) = corners(V(m0), F(m0)[j])

\* nothing is left of m
emptied(m) == Len(V(m)) = 0 /\ Len(F(m)) = 0 /\ Len(N(m)) = 0

\* C11: stitching a mesh whose vertices are all referenced, with
\* drop_unused_vertices=True, leaves exactly one vertex per distinct position,
\* in order of first occurrence, and every face corner refers to the position
\* it referred to before.
C11_StitchCanonical ==
    StitchedReferenced
    => /\ ret.kind # "raise"
       /\ canonical(Args.self, mesh, ~Args.drop_duplicate_faces)

\* the call whose unused vertices are dropped: drop_unused_vertices(), or
\* stitch_adjacent_faces(drop_unused_vertices=True)
DroppedUnused ==
    \/ last.op = "drop_unused_vertices"
    \/ last.op = "stitch_adjacent_faces" /\ Args.drop_unused_vertices

\* the index a face index of m0 stands for once duplicates are replaced by their
\* first occurrence (stitch), and the index itself otherwise
standing_for(m0, x) == IF last.op = "stitch_adjacent_faces" THEN first_index(V(m0), x + 1) - 1 ELSE x

\* the vertices of m0, by position, that a face of m0 still refers to
still_referenced(m0) ==
    [p \in 1..Len(V(m0)) |-> \E j \in 1..Len(F(m0)) : \E c \in 1..3 : standing_for(m0, F(m0)[j][c]) = p - 1]

\* the number of removed vertices of m0 with an index smaller than x
removed_below(m0, x) == Cardinality({q \in 1..x : ~still_referenced(m0)[q]})

lowered(m0, x) == standing_for(m0, x) - removed_below(m0, standing_for(m0, x))

\* every face of m is a face of m0 with each index lowered
faces_lowered(m0, m) ==
    \A j \in 1..Len(F(m)) : \E i \in 1..Len(F(m0)) :
        \A c \in 1..3 : F(m)[j][c] = lowered(m0, F(m0)[i][c])

\* the normals of m are those of m0 at the vertices that remain (after a stitch
\* they are new ones, one per remaining vertex)
normals_in_lockstep(m0, m) ==
    IF last.op = "stitch_adjacent_faces"
    THEN Len(N(m)) = Len(V(m))
    ELSE N(m) = MaskRows(N(m0), still_referenced(m0))

\* C25: after stitch_adjacent_faces(drop_unused_vertices=True) or
\* drop_unused_vertices() has returned, every remaining vertex is referenced by a
\* face, every face index is below the vertex count, every face corner refers to
\* the position it referred to before, every index is lowered by the number of
\* removed vertices below it, and the normals, when present, are removed at the
\* same indices as the vertices.
C25_UnusedVerticesDropped ==
    (DroppedUnused /\ ret.kind # "raise")
    => /\ every_vertex_referenced(mesh)
       /\ FacesInRange(F(mesh), Len(V(mesh)))
       /\ \A j \in 1..Len(F(mesh)) : \E i \in 1..Len(F(Args.self)) :
              corners(V(mesh), F(mesh)[j]) = corners(V(Args.self), F(Args.self)[i])
       /\ V(mesh) = MaskRows(V(Args.self), still_referenced(Args.self))
       /\ faces_lowered(Args.self, mesh)
       /\ Len(N(Args.self)) > 0 => normals_in_lockstep(Args.self, mesh)

\* the faces of m0 once stitched: every index stands for the first vertex at its
\* position, lowered when the unused vertices are dropped
stitched_faces(m0, drop_unused) ==
    [j \in 1..Len(F(m0)) |->
        [c \in 1..3 |-> IF drop_unused THEN lowered(m0, F(m0)[j][c]) ELSE standing_for(m0, F(m0)[j][c])]]

\* two faces with the same three indices, in any order
same_indices(f, g) == \A x \in 0..(MaxStitchVerts + 3) :
    Cardinality({c \in 1..3 : f[c] = x}) = Cardinality({c \in 1..3 : g[c] = x})

\* of every group of faces with the same indices the first, in list order
first_of_each_group(fs) ==
    MaskRows(fs, [j \in 1..Len(fs) |-> \A i \in 1..(j - 1) : ~same_indices(fs[i], fs[j])])

\* C26: after stitch_adjacent_faces(drop_duplicate_faces=True) has returned, no
\* two faces have the same three indices up to their order, and the faces are
\* the first of each group of such duplicates, as they were and in their order.
C26_DuplicateFacesDropped ==
    (last.op = "stitch_adjacent_faces" /\ Args.drop_duplicate_faces /\ ret.kind # "raise")
    => /\ \A i \in 1..Len(F(mesh)) : \A j \in (i + 1)..Len(F(mesh)) : ~same_indices(F(mesh)[i], F(mesh)[j])
       /\ F(mesh) = first_of_each_group(stitched_faces(Args.self, Args.drop_unused_vertices))

-----------------------------------------------------------------------------
(* recompute_normals and laplacian_smooth on their own *)

\* a strip of three triangles, wide enough to keep its faces when smoothed
Strip == <<<<0, 0, 0>>, <<0, 40, 0>>, <<0, 0, 40>>, <<0, 40, 40>>, <<0, 0, 80>>>>

StripFaces == <<<<0, 1, 2>>, <<1, 2, 3>>, <<2, 3, 4>>>>

\* vertices and faces of the meshes
NormalsMeshes ==
    {<<v, f>> : v \in StitchVertexArrays, f \in StitchFaceArrays(MaxStitchVerts)}
        \cup {<<Strip, StripFaces>>, <<Strip, StripFaces \o <<<<0, 0, 1>>>>>>}

InitNormals ==
    \E vf \in NormalsMeshes : \E n \in NormalsFor(vf[1]) :
        /\ FacesInRange(vf[2], Len(vf[1]))
        /\ Constructed(Mesh(vf[1], vf[2], n, None, None, None, "lz4"))

RecomputeOnce ==
    Fresh /\ \E remove_degenerate_faces \in BOOLEAN :
        Apply("recompute_normals",
              [self |-> mesh, remove_degenerate_faces |-> remove_degenerate_faces],
              recompute_normals(mesh, remove_degenerate_faces))

SmoothOnce ==
    Fresh /\ \E iterations \in 0..MaxIterations :
        Apply("laplacian_smooth", [self |-> mesh, iterations |-> iterations],
              laplacian_smooth(mesh, iterations))

NextNormals == RecomputeOnce \/ SmoothOnce

SpecNormals == InitNormals /\ [][NextNormals]_vars

no_face_has_area(m) == \A j \in 1..Len(F(m)) : face_normal(V(m), F(m)[j]) = ZeroVec

\* C12: recompute_normals(remove_degenerate_faces=True) on a mesh with zero
\* faces, or whose faces are all degenerate, returns normally and leaves a
\* mesh with 0 vertices, 0 faces and 0 normals.
C12_RecomputeNormalsEmpties ==
    (/\ last.op = "recompute_normals"
     /\ Args.remove_degenerate_faces
     /\ no_face_has_area(Args.self))
    => ret.kind # "raise" /\ emptied(mesh)

\* a state laplacian_smooth has returned to
Smoothed == last.op = "laplacian_smooth" /\ ret.kind # "raise"

-----------------------------------------------------------------------------
(* concatenate_meshes on its own *)

\* Mesh.from_file of a 0-sized file, Mesh.from_buffer of no bytes
from_buffer_empty == Mesh(<<>>, <<>>, None, None, None, None, "lz4")

\* Mesh.from_binary_vol of a volume that is all foreground or all background
from_binary_vol_empty(fullres_box_zyx, fragment_shape, fragment_origin) ==
    Mesh(<<>>, <<>>, None, Some(fullres_box_zyx), fragment_shape, fragment_origin, "lz4")

FarPoint == <<16, 18, 20>>

\* meshes that have vertices: a triangle and a single point away from it
ConcatSolids ==
    {Mesh(Points, <<<<0, 1, 2>>>>, n, None, None, None, "lz4").mesh : n \in NormalsFor(Points)}
    \cup {Mesh(<<FarPoint>>, <<>>, n, None, None, None, "lz4").mesh : n \in NormalsFor(<<FarPoint>>)}

\* meshes without vertices, as the library makes them
ConcatEmpties ==
    {from_buffer_empty.mesh,
     from_binary_vol_empty(<<<<0, 0, 0>>, <<32, 32, 32>>>>, None, None).mesh,
     recompute_normals(Mesh(<<FarPoint, FarPoint>>, <<<<0, 0, 1>>>>, None, None, None, None, "lz4").mesh, TRUE).mesh,
     trim(Mesh(<<FarPoint>>, <<>>, None, None, Some(<<2, 2, 2>>), Some(<<0, 0, 0>>), "lz4").mesh,
          FALSE, no_result).mesh}

ConcatInputs == ConcatSolids \cup ConcatEmpties

InitConcatenate ==
    \E m \in ConcatInputs : Constructed(Return(m, "mesh", None))

\* the lists a caller concatenates: none, or the mesh with at most one mesh before
\* and one after it
ConcatLists == {<<>>} \cup {b \o <<mesh>> \o a : b \in SeqsUpTo(ConcatInputs, 1), a \in SeqsUpTo(ConcatInputs, 1)}

ConcatenateOnce ==
    Fresh /\ \E meshes \in ConcatLists, keep_normals \in BOOLEAN :
        Apply("concatenate_meshes", [meshes |-> meshes, keep_normals |-> keep_normals],
              concatenated(concatenate_meshes(meshes, keep_normals)))

NextConcatenate == ConcatenateOnce

SpecConcatenate == InitConcatenate /\ [][NextConcatenate]_vars

\* a state concatenate_meshes has returned a mesh to
Concatenated == last.op = "concatenate_meshes" /\ ret.kind # "raise"

RECURSIVE sum_of(_, _)
sum_of(counts, n) == IF n = 0 THEN 0 ELSE sum_of(counts, n - 1) + counts[n]

vertex_counts(meshes) == [i \in 1..Len(meshes) |-> Len(V(meshes[i]))]

face_counts(meshes) == [i \in 1..Len(meshes) |-> Len(F(meshes[i]))]

\* C14: the result of concatenate_meshes has as many vertices and faces as
\* the inputs together, the vertices in input order; face j of input i is in
\* the result with each index increased by the vertex count of the inputs
\* before i, refers to the same three positions, and stays below the vertex count.
C14_ConcatenateConserves ==
    Concatenated
    => /\ Len(V(mesh)) = sum_of(vertex_counts(Args.meshes), Len(Args.meshes))
       /\ Len(F(mesh)) = sum_of(face_counts(Args.meshes), Len(Args.meshes))
       /\ \A i \in 1..Len(Args.meshes) :
            /\ \A p \in 1..Len(V(Args.meshes[i])) :
                 V(mesh)[sum_of(vertex_counts(Args.meshes), i - 1) + p] = V(Args.meshes[i])[p]
            /\ \A j \in 1..Len(F(Args.meshes[i])) :
                 /\ F(mesh)[sum_of(face_counts(Args.meshes), i - 1) + j]
                      = [c \in 1..3 |-> F(Args.meshes[i])[j][c] + sum_of(vertex_counts(Args.meshes), i - 1)]
                 /\ corners(V(mesh), F(mesh)[sum_of(face_counts(Args.meshes), i - 1) + j])
                      = corners(V(Args.meshes[i]), F(Args.meshes[i])[j])
       /\ FacesInRange(F(mesh), Len(V(mesh)))

\* the triangle has been concatenated after a mesh with a vertex
C14_Witness ==
    /\ Concatenated
    /\ Len(Args.meshes) >= 2 /\ Len(V(Args.meshes[1])) = 1 /\ Len(F(Args.meshes[2])) = 1
    /\ F(mesh) = <<<<1, 2, 3>>>>

\* the positions of meshes that have a vertex
with_vertices(meshes) == {i \in 1..Len(meshes) : Len(V(meshes[i])) > 0}

\* the componentwise union of the boxes of the meshes at the positions idx
union_box(meshes, idx) ==
    <<[c \in 1..3 |-> CHOOSE x \in {meshes[i].box[1][c] : i \in idx} :
                         \A i \in idx : x <= meshes[i].box[1][c]],
      [c \in 1..3 |-> CHOOSE x \in {meshes[i].box[2][c] : i \in idx} :
                         \A i \in idx : x >= meshes[i].box[2][c]]>>

\* C15: the box of a concatenation is the componentwise min of the input box
\* mins and max of the input box maxes, and the meshes without vertices in
\* the list have no part in it: it is the box the meshes with vertices give.
C15_ConcatenateBox ==
    Concatenated
    => /\ mesh.box = union_box(Args.meshes, 1..Len(Args.meshes))
       /\ with_vertices(Args.meshes) # {}
            => mesh.box = union_box(Args.meshes, with_vertices(Args.meshes))

\* no input has normals, or every input has one normal per vertex
consistent_normals(meshes) ==
    \/ \A i \in 1..Len(meshes) : Len(N(meshes[i])) = 0
    \/ \A i \in 1..Len(meshes) : Len(N(meshes[i])) = Len(V(meshes[i]))

\* C16: concatenate_meshes(meshes, keep_normals=True) raises the
\* inconsistent-normals error exactly when the normals of the inputs are not
\* consistent; in every other case, and always with keep_normals=False, it
\* returns a mesh whose normals are the inputs' normals in order, or none.
C16_ConcatenateNormals ==
    last.op = "concatenate_meshes"
    => IF Args.keep_normals /\ ~consistent_normals(Args.meshes)
       THEN ret.kind = "raise" /\ ret.val = "RuntimeError"
       ELSE /\ ret.kind = "mesh"
            /\ N(mesh) = IF Args.keep_normals
                         THEN concat_rows([i \in 1..Len(Args.meshes) |-> N(Args.meshes[i])], Len(Args.meshes))
                         ELSE <<>>

-----------------------------------------------------------------------------
(* quantize on its own *)

\* fragments as <<shape, origin>>, in voxels
QuantizeFragments == {<<<<4, 4, 4>>, <<0, 0, 0>>>>, <<<<2, 4, 8>>, <<-2, 0, 2>>>>}

\* the corner of a fragment at its origin and the corner opposite to it, as vertices (zyx)
min_corner(fragment) == ReverseCols(<<VecScale(Resolution, fragment[2])>>)[1]

max_corner(fragment) == ReverseCols(<<VecScale(Resolution, VecAdd(fragment[2], fragment[1]))>>)[1]

\* the middle of a fragment, a position below its min corner and one beyond its max corner
center(fragment) == ReverseCols(<<VecScale(HalfSteps, VecAdd(VecScale(2, fragment[2]), fragment[1]))>>)[1]

below(fragment) == ReverseCols(<<VecScale(Resolution, VecSub(fragment[2], fragment[1]))>>)[1]

beyond(fragment) == ReverseCols(<<VecScale(Resolution, VecAdd(fragment[2], VecScale(2, fragment[1])))>>)[1]

\* positions whose place on the grid is exact in the arithmetic of the model
QuantizePoints(fragment) ==
    {min_corner(fragment), max_corner(fragment), center(fragment), below(fragment), beyond(fragment)}

BitCounts == {1, 10}

InitQuantize ==
    \E fragment \in QuantizeFragments : \E v \in SeqsUpTo(QuantizePoints(fragment), 2) :
        Constructed(Mesh(v, <<>>, None, None, Some(fragment[1]), Some(fragment[2]), "lz4"))

QuantizeOnce ==
    Fresh /\ \E position_quantization_bits \in BitCounts :
        Apply("quantize", [self |-> mesh, position_quantization_bits |-> position_quantization_bits],
              quantize(mesh, position_quantization_bits))

NextQuantize == QuantizeOnce

SpecQuantize == InitQuantize /\ [][NextQuantize]_vars

\* the fragment a mesh was made for, as <<shape, origin>>
fragment_of(m) == <<Val(m._fragment_shape), Val(m._fragment_origin)>>

\* the number nearest to num / den (den > 0), halves upwards
round_div(num, den) == (2 * num + den) \div (2 * den)

\* round(clamp((pos - origin) * upper_bound / shape, 0, upper_bound)) of coordinate c
\* (xyz) of a position, as a coordinate of the model
on_grid(x, origin, shape, upper_bound) ==
    Resolution * Max(0, Min(upper_bound, round_div((x - origin * Resolution) * upper_bound, shape * Resolution)))

grid_position(v_zyx, fragment, upper_bound) ==
    <<on_grid(v_zyx[1], fragment[2][3], fragment[1][3], upper_bound),
      on_grid(v_zyx[2], fragment[2][2], fragment[1][2], upper_bound),
      on_grid(v_zyx[3], fragment[2][1], fragment[1][1], upper_bound)>>

\* C17: quantize(bits) maps every vertex coordinate to
\* round(clamp((pos - fragment_origin) * (2^bits - 1) / fragment_shape, 0, 2^bits - 1)):
\* an integer in [0, 2^bits - 1]; a vertex at the fragment's min corner maps
\* to (0,0,0) and one at its max corner to 2^bits - 1 on every axis.
C17_QuantizeToIntegerGrid ==
    (last.op = "quantize" /\ ret.kind # "raise")
    => \A p \in 1..Len(V(mesh)) :
         /\ \A c \in 1..3 : /\ V(mesh)[p][c] % Resolution = 0
                            /\ 0 <= V(mesh)[p][c]
                            /\ V(mesh)[p][c] <= (Pow2(Args.position_quantization_bits) - 1) * Resolution
         /\ V(mesh)[p] = grid_position(V(Args.self)[p], fragment_of(Args.self),
                                       Pow2(Args.position_quantization_bits) - 1)
         /\ V(Args.self)[p] = min_corner(fragment_of(Args.self)) => V(mesh)[p] = ZeroVec
         /\ V(Args.self)[p] = max_corner(fragment_of(Args.self))
              => V(mesh)[p] = VecScale((Pow2(Args.position_quantization_bits) - 1) * Resolution, <<1, 1, 1>>)

-----------------------------------------------------------------------------
(* _cmp_zorder and the Z-curve sort of concatenate_mesh_bytes *)

\* x ^ y on Python integers (two's complement without a width)
RECURSIVE xor(_, _)
xor(x, y) ==
    IF x = 0 THEN y
    ELSE IF y = 0 THEN x
    ELSE IF x = -1 THEN -1 - y
    ELSE IF y = -1 THEN -1 - x
    ELSE 2 * xor(x \div 2, y \div 2) + (IF x % 2 = y % 2 THEN 0 ELSE 1)

less_msb(x, y) == x < y /\ x < xor(x, y)

\* a loop that lets the other dimension win a tie
more_significant_on_tie(lhs, rhs, msd, dim) ==
    IF less_msb(xor(lhs[dim + 1], rhs[dim + 1]), xor(lhs[msd + 1], rhs[msd + 1])) THEN msd ELSE dim

\* one round of the loop over the other dimensions; dimensions count from 0
more_significant(lhs, rhs, msd, dim) ==
    IF less_msb(xor(lhs[msd + 1], rhs[msd + 1]), xor(lhs[dim + 1], rhs[dim + 1])) THEN dim ELSE msd

difference_at(lhs, rhs, msd) == lhs[msd + 1] - rhs[msd + 1]

_cmp_zorder(lhs, rhs) ==
    difference_at(lhs, rhs, more_significant(lhs, rhs, more_significant(lhs, rhs, 2, 1), 0))

\* K(x) < K(y) of functools.cmp_to_key
ISLT(x, y) == _cmp_zorder(x, y) < 0

RECURSIVE Reversed(_)
Reversed(s) == IF s = <<>> THEN <<>> ELSE Append(Reversed(Tail(s)), Head(s))

\* list.sort, count_run: the length of the run a (Len(a) >= 2) starts with,
\* strictly descending or else ascending
RECURSIVE run_length(_, _, _)
run_length(a, k, descending) ==
    IF k < Len(a) /\ (ISLT(a[k + 1], a[k]) <=> descending)
    THEN run_length(a, k + 1, descending)
    ELSE k

ordered_run(a, n, descending) == IF descending THEN Reversed(SubSeq(a, 1, n)) ELSE SubSeq(a, 1, n)

\* list.sort, binarysort: where pivot goes in the sorted s, between l and r (from 0)
RECURSIVE bisect(_, _, _, _)
bisect(s, pivot, l, r) ==
    IF l >= r THEN l
    ELSE IF ISLT(pivot, s[l + (r - l) \div 2 + 1])
    THEN bisect(s, pivot, l, l + (r - l) \div 2)
    ELSE bisect(s, pivot, l + (r - l) \div 2 + 1, r)

insert_at(s, pivot, l) == SubSeq(s, 1, l) \o <<pivot>> \o SubSeq(s, l + 1, Len(s))

RECURSIVE binarysort(_, _)
binarysort(s, rest) ==
    IF rest = <<>> THEN s
    ELSE binarysort(insert_at(s, Head(rest), bisect(s, Head(rest), 0, Len(s))), Tail(rest))

sort_from_run(a, n, descending) == binarysort(ordered_run(a, n, descending), SubSeq(a, n + 1, Len(a)))

\* sorted(fragment_origins, key=cmp_to_key(_cmp_zorder)), for the short lists
\* list.sort sorts by binary insertion
sorted_zorder(a) ==
    IF Len(a) < 2 THEN a
    ELSE sort_from_run(a, run_length(a, 2, ISLT(a[2], a[1])), ISLT(a[2], a[1]))

MaxCoordinate == 2

\* brick coordinates, below zero too
Coordinates == (-MaxCoordinate..MaxCoordinate) \X (-MaxCoordinate..MaxCoordinate) \X (-MaxCoordinate..MaxCoordinate)

\* the corners of the unit cube, in Morton order and in two other orders
Octants ==
    <<<<0, 0, 0>>, <<1, 0, 0>>, <<0, 1, 0>>, <<1, 1, 0>>, <<0, 0, 1>>, <<1, 0, 1>>, <<0, 1, 1>>, <<1, 1, 1>>>>

OctantOrders ==
    {Octants, Reversed(Octants),
     <<Octants[6], Octants[2], Octants[8], Octants[1], Octants[4], Octants[7], Octants[3], Octants[5]>>}

\* the origins of up to three different bricks next to the origin, in any order
NearOrigins ==
    {s \in SeqsUpTo((-1..1) \X (-1..1) \X (-1..1), 3) : \A i, j \in 1..Len(s) : i # j => s[i] # s[j]}

InitZorder == Constructed(from_buffer_empty)

CmpZorder ==
    Fresh /\ \E lhs \in Coordinates, rhs \in Coordinates :
        Apply("_cmp_zorder", [lhs |-> lhs, rhs |-> rhs], Return(mesh, "int", _cmp_zorder(lhs, rhs)))

SortZorder ==
    Fresh /\ \E fragment_origins \in NearOrigins \cup OctantOrders :
        Apply("sorted", [fragment_origins |-> fragment_origins],
              Return(mesh, "list", sorted_zorder(fragment_origins)))

NextZorder == CmpZorder \/ SortZorder

SpecZorder == InitZorder /\ [][NextZorder]_vars

\* the Morton code of non-negative coordinates: their bits interleaved, axis 2 the
\* most significant of a level, then axis 1, then axis 0
RECURSIVE morton(_)
morton(a) ==
    IF a = <<0, 0, 0>> THEN 0
    ELSE 8 * morton(<<a[1] \div 2, a[2] \div 2, a[3] \div 2>>) + 4 * (a[3] % 2) + 2 * (a[2] % 2) + (a[1] % 2)

sign(x) == IF x < 0 THEN -1 ELSE IF x > 0 THEN 1 ELSE 0

non_negative(a) == a[1] >= 0 /\ a[2] >= 0 /\ a[3] >= 0

\* C18: for non-negative brick coordinates the sign of _cmp_zorder(a, b) is
\* the sign of morton(a) - morton(b), and sorting the 8 octant coordinates
\* with it gives the Morton order.
C18_ZorderIsMorton ==
    /\ (last.op = "_cmp_zorder" /\ non_negative(Args.lhs) /\ non_negative(Args.rhs))
         => sign(ret.val) = sign(morton(Args.lhs) - morton(Args.rhs))
    /\ (last.op = "sorted" /\ Args.fragment_origins \in OctantOrders) => ret.val = Octants

\* two coordinates that differ on the less significant axes at a higher bit
\* have been compared
C18_Witness ==
    /\ last.op = "_cmp_zorder"
    /\ Args.lhs = <<2, 0, 0>> /\ Args.rhs = <<0, 1, 1>>
    /\ ret.val > 0

\* C19: the comparator is a strict total order over integer brick coordinates,
\* negative ones too: it is 0 only for equal coordinates, cmp(a,b) < 0 iff
\* cmp(b,a) > 0, and the sorted bricks are strictly increasing, each before
\* every later one, whatever the order they came in.
C19_ZorderStrictTotalOrder ==
    /\ last.op = "_cmp_zorder"
         => /\ ret.val = 0 => Args.lhs = Args.rhs
            /\ ret.val < 0 <=> _cmp_zorder(Args.rhs, Args.lhs) > 0
    /\ (last.op = "sorted" /\ Args.fragment_origins \in NearOrigins)
         => /\ \A i, j \in 1..Len(ret.val) : i < j => _cmp_zorder(ret.val[i], ret.val[j]) < 0
            /\ ret.val = sorted_zorder(Reversed(Args.fragment_origins))

-----------------------------------------------------------------------------
(* One decimation request on a freshly constructed mesh, through each of   *)
(* the four entry points, with face counts on both sides of the thresholds *)
(* the code tests.                                                         *)

\* seven triangles over the five vertices of the strip; the last one has no area
DenseFaces ==
    StripFaces \o <<<<0, 1, 3>>, <<1, 3, 4>>, <<0, 3, 4>>, <<0, 2, 4>>>>

SimplifyFaceArrays ==
    {SubSeq(DenseFaces, 1, k) : k \in {0, 1, 3, 6, 7}} \cup {<<<<0, 2, 4>>>>}

SimplifyFractions == Fractions \cup {Some(<<1, 2>>)}

InitSimplify ==
    \E f \in SimplifyFaceArrays : \E n \in NormalsFor(Strip) :
        Constructed(Mesh(Strip, f, n, None, None, None, "lz4"))

SimplifyOnce ==
    Fresh /\ \E fraction \in SimplifyFractions :
        \E in_memory \in InMemory(~simplify_returns_early(mesh, fraction)),
           exit_code \in ExitCodes(~simplify_returns_early(mesh, fraction)),
           result \in Decimations(~simplify_returns_early(mesh, fraction)) :
        Apply("simplify",
              [self |-> mesh, fraction |-> fraction,
               decimator_invoked |-> ~simplify_returns_early(mesh, fraction)],
              simplify(mesh, fraction, in_memory, exit_code, result))

SimplifyOpenmeshOnce ==
    Fresh /\ \E fraction \in SimplifyFractions :
        \E result \in Decimations(~simplify_openmesh_returns_early(mesh, fraction)) :
        Apply("simplify_openmesh",
              [self |-> mesh, fraction |-> fraction,
               decimator_invoked |-> ~simplify_openmesh_returns_early(mesh, fraction)],
              simplify_openmesh(mesh, fraction, result))

SimplifyOpen3dOnce ==
    Fresh /\ \E fraction \in SimplifyFractions :
        \E result \in Decimations(simplify_open3d_decimates(mesh, fraction)) :
        Apply("simplify_open3d",
              [self |-> mesh, fraction |-> fraction,
               decimator_invoked |-> simplify_open3d_decimates(mesh, fraction)],
              simplify_open3d(mesh, fraction, result))

SimplifyPySimplifyOnce ==
    Fresh /\ \E fraction \in SimplifyFractions :
        \E result \in Decimations(simplify_pySimplify_decimates(mesh) /\ ~IsNone(fraction)) :
        Apply("simplify_pySimplify",
              [self |-> mesh, fraction |-> fraction,
               decimator_invoked |-> simplify_pySimplify_decimates(mesh) /\ ~IsNone(fraction)],
              simplify_pySimplify(mesh, fraction, result))

NextSimplify == SimplifyOnce \/ SimplifyOpenmeshOnce \/ SimplifyOpen3dOnce \/ SimplifyPySimplifyOnce

SpecSimplify == InitSimplify /\ [][NextSimplify]_vars

DecimationEntryPoints == {"simplify", "simplify_openmesh", "simplify_open3d", "simplify_pySimplify"}

\* face count times fraction is below 4
below_four_faces(m, fraction) ==
    ~IsNone(fraction) /\ Len(F(m)) * Val(fraction)[1] < 4 * Val(fraction)[2]

\* C20: every decimation entry point, asked for a result of fewer than 4 faces
\* (face count times fraction below 4), returns without raising, does not invoke
\* the decimator and leaves vertices and faces as they were.
C20_SmallRequestsSkipped ==
    (last.op \in DecimationEntryPoints /\ below_four_faces(Args.self, Args.fraction))
        => /\ ~Raised([mesh |-> mesh, ret |-> ret])
           /\ ~Args.decimator_invoked
           /\ V(mesh) = V(Args.self)
           /\ F(mesh) = F(Args.self)

-----------------------------------------------------------------------------
(* simplify(fraction, in_memory, timeout) step by step, with the           *)
(* fq-mesh-simplify process as a second party. ret.kind = "running" while  *)
(* the call has not returned; ret.val is then the statement the caller is  *)
(* at, and the arguments record what the process has done so far.          *)

\* what the process does: exits with code 0 or 1 after writing its output, closes its
\* output but does not exit, or neither writes nor exits
ToolOutcomes == {"exit0", "exit1", "lingers", "hangs"}

\* timeout=None or a number of seconds
Timeouts == {None, Some(1)}

InCall == last.op = "simplify" /\ ret.kind = "running"

At(statement) == InCall /\ ret.val = statement

Running(args, statement, m) ==
    /\ mesh' = m
    /\ ret' = [kind |-> "running", val |-> statement]
    /\ last' = [op |-> "simplify", arg |-> Arg("simplify", args), prev |-> last.op, calls |-> 1,
                pre |-> last.pre]

\* the call returns or raises
Ends(r) ==
    /\ mesh' = r.mesh
    /\ ret' = r.ret
    /\ UNCHANGED last

\* lines 847-850, then Popen (in_memory) or check_call: the process is started
SimplifyStarts ==
    Fresh /\ \E fraction \in SimplifyFractions, in_memory \in BOOLEAN, timeout \in Timeouts :
        IF simplify_returns_early(mesh, fraction)
        THEN Apply("simplify",
                   [self |-> mesh, fraction |-> fraction, in_memory |-> in_memory, timeout |-> timeout,
                    tool |-> "not started", result |-> no_result],
                   simplify(mesh, fraction, in_memory, 0, no_result))
        ELSE Running([self |-> mesh, fraction |-> fraction, in_memory |-> in_memory, timeout |-> timeout,
                      tool |-> "started", result |-> no_result],
                     IF in_memory THEN "read_obj" ELSE "check_call", mesh)

\* the process runs: what it wrote and how it ended, or that it never will
ToolRuns ==
    /\ InCall /\ Args.tool = "started"
    /\ \E outcome \in ToolOutcomes : \E result \in Decimations(outcome # "hangs") :
        Running([Args EXCEPT !.tool = outcome, !.result = result], ret.val, mesh)

\* in_memory: read_obj(mesh_stream) returns when the process has closed its output;
\* self.faces and self.vertices_zyx are assigned at once (lines 867-869)
SimplifyReadsPipe ==
    /\ At("read_obj") /\ Args.tool \in {"exit0", "exit1", "lingers"}
    /\ Running(Args, "proc.wait", decimated(mesh, Args.result))

\* in_memory: proc.wait(timeout=1.0) and the return code (lines 871-876)
SimplifyWaitsPipe ==
    /\ At("proc.wait")
    /\ IF Args.tool = "lingers" THEN Ends(Raise(mesh, "TimeoutExpired"))
       ELSE IF Args.tool = "exit1" THEN Ends(Raise(mesh, "RuntimeError"))
       ELSE Running(Args, "recompute_normals", mesh)

\* check_call waits for the process for ever when timeout is None
check_call_returns(tool, timeout) == tool \in {"exit0", "exit1"} \/ (tool # "started" /\ ~IsNone(timeout))

\* file-staged: subprocess.check_call(cmd, shell=True, timeout=timeout), then the
\* output file is read (lines 877-887)
SimplifyCheckCall ==
    /\ At("check_call") /\ check_call_returns(Args.tool, Args.timeout)
    /\ IF Args.tool = "exit0" THEN Running(Args, "recompute_normals", decimated(mesh, Args.result))
       ELSE IF Args.tool = "exit1" THEN Ends(Raise(mesh, "CalledProcessError"))
       ELSE Ends(Raise(mesh, "TimeoutExpired"))

\* self.recompute_normals(True) (line 891), in process
SimplifyRecomputes ==
    /\ At("recompute_normals")
    /\ Ends(recompute_normals(mesh, TRUE))

NextSimplifyRun ==
    SimplifyStarts \/ ToolRuns \/ SimplifyReadsPipe \/ SimplifyWaitsPipe \/ SimplifyCheckCall
        \/ SimplifyRecomputes

\* the process and the caller's thread waiting for it are scheduled: a step of the
\* exchange with the process that stays possible is taken
SpecSimplifyRun ==
    /\ InitSimplify /\ [][NextSimplifyRun]_vars
    /\ WF_vars(ToolRuns) /\ WF_vars(SimplifyReadsPipe)
    /\ WF_vars(SimplifyWaitsPipe) /\ WF_vars(SimplifyCheckCall)

SimplifyEnded == last.op = "simplify" /\ ret.kind # "running"

\* the call to the process is over: simplify has raised, or goes on in process
ToolCallEnded == SimplifyEnded \/ At("recompute_normals")

\* the process exited with a non-zero code, or a timeout was given and it did not finish
ToolFailed ==
    last.op = "simplify" /\ (Args.tool = "exit1" \/ (Args.tool \in {"lingers", "hangs"} /\ ~IsNone(Args.timeout)))

\* C21: a call of simplify with a timeout always ends, in the file-staged and in the
\* piped mode; and when the process exited with a non-zero code or did not finish
\* within the given timeout, the call has raised an error.
C21_SimplifyCallEnds ==
    /\ [](SimplifyEnded /\ ToolFailed => ret.kind = "raise")
    /\ (InCall /\ ~IsNone(Args.timeout)) ~> ToolCallEnded

ToolErrors == {"RuntimeError", "CalledProcessError", "TimeoutExpired"}

\* C29: whenever simplify raises because the process exited with a non-zero code or
\* timed out, vertices, faces and normals are what they were before the call, in both
\* modes.
C29_SimplifyAtomicOnFailure ==
    (SimplifyEnded /\ ret.kind = "raise" /\ ret.val \in ToolErrors)
        => /\ V(mesh) = V(Args.self)
           /\ F(mesh) = F(Args.self)
           /\ N(mesh) = N(Args.self)

-----------------------------------------------------------------------------
(* Alternate constructors: from_buffer, from_file, from_tarfile. Bytes are *)
(* [fmt |-> what they hold, data |-> the content], as serialize returns    *)
(* them; a decoder raises on bytes that hold something else.               *)

\* len(serialized_bytes)
len_bytes(serialized_bytes) ==
    IF serialized_bytes.fmt \in {"drc", "custom_drc"} THEN draco_len(serialized_bytes.data)
    ELSE Len(serialized_bytes.data)

\* obj_utils.read_obj: vertices, faces and normals of the text
read_obj(data) == [vertices_xyz |-> data[1], faces |-> data[2], normals_xyz |-> data[3]]

from_obj(d) ==
    Mesh(ReverseCols(d.vertices_xyz), d.faces, Some(ReverseCols(d.normals_xyz)), None, None, None, "lz4")

from_buffer_obj(serialized_bytes) ==
    IF serialized_bytes.fmt # "obj" THEN Raise(None, "ValueError")
    ELSE from_obj(read_obj(serialized_bytes.data))

from_buffer_drc(serialized_bytes) ==
    IF serialized_bytes.fmt # "drc" THEN Raise(None, "RuntimeError")
    ELSE from_obj(decode_drc_bytes_to_faces(serialized_bytes.data))

\* a reader that forgets to turn xyz into zyx
from_ngmesh_keeping_xyz(d) == Mesh(d.vertices_xyz, d.faces, None, None, None, None, "lz4")

from_ngmesh(d) == Mesh(ReverseCols(d.vertices_xyz), d.faces, None, None, None, None, "lz4")

from_buffer_ngmesh(serialized_bytes) ==
    IF serialized_bytes.fmt # "ngmesh" THEN Raise(None, "ValueError")
    ELSE from_ngmesh(read_ngmesh(serialized_bytes.data))

\* no branch for 'custom_drc': the function falls off its end and returns None
from_buffer(serialized_bytes, fmt) ==
    IF fmt \notin MESH_FORMATS THEN Raise(None, "AssertionError")
    ELSE IF len_bytes(serialized_bytes) = 0 THEN from_buffer_empty
    ELSE IF fmt = "obj" THEN from_buffer_obj(serialized_bytes)
    ELSE IF fmt = "drc" THEN from_buffer_drc(serialized_bytes)
    ELSE IF fmt = "ngmesh" THEN from_buffer_ngmesh(serialized_bytes)
    ELSE Return(None, "none", None)

\* a path is [ext |-> its extension, bytes |-> the content of the file]
from_file(path) ==
    IF len_bytes(path.bytes) = 0 THEN from_buffer_empty
    ELSE IF path.ext = "drc" THEN from_buffer(path.bytes, "drc")
    ELSE IF path.ext = "obj" THEN from_buffer_obj(path.bytes)
    ELSE IF path.ext = "ngmesh" THEN from_buffer_ngmesh(path.bytes)
    ELSE Raise(None, "RuntimeError")

by_name(a, b) == a.name < b.name

\* Skip non-mesh files and empty files
is_mesh_file(member) == member.ext \in MESH_FORMATS /\ len_bytes(member.bytes) > 0

\* try: Mesh.from_buffer(buf, ext); a bare except skips the member
is_loaded(member) == is_mesh_file(member) /\ ~Raised(from_buffer(member.bytes, member.ext))

loaded(member) == [name |-> member.name, value |-> from_buffer(member.bytes, member.ext)]

\* meshes, in the order of the names: {name: what from_buffer returned}
tarfile_meshes(members) ==
    [i \in 1..Len(SelectSeq(SortSeq(members, by_name), is_loaded)) |->
        loaded(SelectSeq(SortSeq(members, by_name), is_loaded)[i])]

dict_values(meshes) == [i \in 1..Len(meshes) |-> meshes[i].value.mesh]

\* concatenate_meshes reads mesh.vertices_zyx of each value
from_tarfile_of(meshes, keep_normals, concatenate) ==
    IF ~concatenate THEN Return(None, "dict", meshes)
    ELSE IF \E i \in 1..Len(meshes) : meshes[i].value.ret.kind # "mesh" THEN Raise(None, "AttributeError")
    ELSE concatenate_meshes(dict_values(meshes), keep_normals)

\* a member is [name |-> its rank among the names, ext, bytes]
from_tarfile(members, keep_normals, concatenate) ==
    from_tarfile_of(tarfile_meshes(members), keep_normals, concatenate)

\* the object a constructor has made, when it has made one
made(r) == IF r.ret.kind = "mesh" THEN r ELSE [mesh |-> mesh, ret |-> r.ret]

\* the meshes whose serializations are read back: a triangle with normals, one vertex
BufferMeshes ==
    {Mesh(Points, <<<<0, 1, 2>>>>, Some(Copies(<<0, 0, 1>>, Len(Points))), None,
          Some(<<2, 2, 2>>), Some(<<0, 0, 0>>), "lz4").mesh,
     Mesh(<<Points[3]>>, <<>>, None, None, Some(<<2, 2, 2>>), Some(<<0, 0, 0>>), "lz4").mesh}

\* b'', and bytes that are no mesh in any format
EmptyBytes == [fmt |-> "obj", data |-> <<>>]

CorruptBytes == [fmt |-> "corrupt", data |-> <<0>>]

\* what serialize returns for these meshes (the one vertex has no normals to encode)
Buffers ==
    {serialize(m, FALSE, fmt).ret.val : m \in BufferMeshes, fmt \in {"obj", "ngmesh"}}
        \cup {serialize(m, FALSE, fmt).ret.val : m \in {x \in BufferMeshes : Len(N(x)) > 0},
                                                 fmt \in {"drc", "custom_drc"}}
        \cup {EmptyBytes, CorruptBytes}

Extensions == MESH_FORMATS \cup {"txt"}

\* archives of up to two members; the storage order need not be the order of the names
Archives ==
    {<<>>}
        \cup {<<[name |-> 1, ext |-> e, bytes |-> b]>> : e \in Extensions, b \in Buffers}
        \cup {<<[name |-> n[1], ext |-> e, bytes |-> b], [name |-> n[2], ext |-> "obj", bytes |-> c]>> :
                n \in {<<1, 2>>, <<2, 1>>}, e \in MESH_FORMATS,
                b \in Buffers, c \in {x \in Buffers : x.fmt = "obj"}}

InitFormats ==
    \E v \in VertexArrays : \E f \in {<<>>, <<<<0, 1, 2>>, <<0, 0, 1>>>>} : \E n \in NormalsFor(v) :
        /\ FacesInRange(f, Len(v))
        /\ Constructed(Mesh(v, f, n, None, None, None, "lz4"))

FromBuffer ==
    Fresh /\ \E serialized_bytes \in Buffers, fmt \in Extensions :
        Apply("from_buffer", [serialized_bytes |-> serialized_bytes, fmt |-> fmt],
              made(from_buffer(serialized_bytes, fmt)))

FromFile ==
    Fresh /\ \E ext \in Extensions, bytes \in Buffers :
        Apply("from_file", [path |-> [ext |-> ext, bytes |-> bytes]],
              made(from_file([ext |-> ext, bytes |-> bytes])))

FromTarfile ==
    Fresh /\ \E members \in Archives, keep_normals \in BOOLEAN, concatenate \in BOOLEAN :
        Apply("from_tarfile", [members |-> members, keep_normals |-> keep_normals, concatenate |-> concatenate],
              made(from_tarfile(members, keep_normals, concatenate)))

\* Mesh.from_buffer(mesh.serialize(fmt=fmt), fmt)
reread(r, fmt) == IF Raised(r) THEN r ELSE made(from_buffer(r.ret.val, fmt))

SerializeAndRead ==
    Fresh /\ \E fmt \in {"obj", "ngmesh"} :
        Apply("from_buffer(serialize)", [self |-> mesh, fmt |-> fmt], reread(serialize(mesh, FALSE, fmt), fmt))

SerializeOnce ==
    Fresh /\ \E has_path \in BOOLEAN, fmt \in MESH_FORMATS :
        Apply("serialize", [self |-> mesh, has_path |-> has_path, fmt |-> fmt], serialize(mesh, has_path, fmt))

NextFormats == FromBuffer \/ FromFile \/ FromTarfile \/ SerializeAndRead \/ SerializeOnce

SpecFormats == InitFormats /\ [][NextFormats]_vars

ReadableFormats == {"obj", "drc", "ngmesh"}

\* C22: from_file raises for every path whose extension is not a readable mesh format,
\* a zero-byte file included; from_buffer returns a Mesh or raises, for every format tag.
C22_UnknownFormatRaises ==
    /\ (last.op = "from_file" /\ Args.path.ext \notin ReadableFormats) => ret.kind = "raise"
    /\ last.op = "from_buffer" => ret.kind \in {"mesh", "raise"}

\* the member holds a mesh in a listed format and decoding it gives a Mesh
decodable(member) == is_mesh_file(member) /\ from_buffer(member.bytes, member.ext).ret.kind = "mesh"

\* the meshes of the decodable members, in the order of the names
decoded(members) ==
    [i \in 1..Len(SelectSeq(SortSeq(members, by_name), decodable)) |->
        from_buffer(SelectSeq(SortSeq(members, by_name), decodable)[i].bytes,
                    SelectSeq(SortSeq(members, by_name), decodable)[i].ext).mesh]

names_of(members) == [i \in 1..Len(members) |-> members[i].name]

\* C23: from_tarfile skips each member that cannot be decoded into a Mesh and returns
\* the meshes of all other members, in name order: concatenated (unless their normals
\* are inconsistent and are to be kept), or as a dict whose values are all Mesh objects.
C23_TarfileSkipsUndecodable ==
    last.op = "from_tarfile"
    => IF ~Args.concatenate
       THEN /\ ret.kind = "dict"
            /\ names_of(ret.val) = names_of(SelectSeq(SortSeq(Args.members, by_name), decodable))
            /\ \A i \in 1..Len(ret.val) : ret.val[i].value.ret.kind = "mesh"
       ELSE IF Args.keep_normals /\ ~_verify_concatenate_inputs(decoded(Args.members))
       THEN ret.kind = "raise"
       ELSE /\ ret.kind = "mesh"
            /\ V(mesh) = concat_rows([i \in 1..Len(decoded(Args.members)) |-> V(decoded(Args.members)[i])],
                                     Len(decoded(Args.members)))

\* C24: reading back the ngmesh serialization of a mesh, the empty mesh included, gives
\* the same vertex positions in the same order and axis order (zyx) and the same face
\* indices.
C24_NgmeshRoundTrip ==
    (last.op = "from_buffer(serialize)" /\ Args.fmt = "ngmesh")
        => /\ ret.kind = "mesh"
           /\ V(mesh) = V(Args.self)
           /\ F(mesh) = F(Args.self)

\* a mesh with faces and a vertex whose z and x differ has been written and read back
C24_Witness ==
    /\ last.op = "from_buffer(serialize)" /\ Args.fmt = "ngmesh" /\ ret.kind = "mesh"
    /\ Len(F(Args.self)) > 0
    /\ \E p \in 1..Len(V(Args.self)) : V(Args.self)[p][1] # V(Args.self)[p][3]

\* the vertices that share an edge of a triangle with vertex v
sharing_an_edge(fs, v) ==
    {fs[j][c] : j \in {i \in 1..Len(fs) : \E d \in 1..3 : fs[i][d] = v}, c \in 1..3} \ {v}

\* the mean of a vertex and of the vertices sharing an edge with it, each once
jacobi_mean(vertices, fs, v) ==
    div_rows(VecAdd(vertices[v + 1], SumRows(vertices, sharing_an_edge(fs, v))),
             Cardinality(sharing_an_edge(fs, v)) + 1)

\* k synchronous updates: every mean is taken over the positions of the pass before
RECURSIVE jacobi(_, _, _)
jacobi(vertices, fs, k) ==
    IF k = 0 THEN vertices
    ELSE jacobi([p \in 1..Len(vertices) |-> jacobi_mean(vertices, fs, p - 1)], fs, k - 1)

\* C27: every iteration of laplacian_smooth replaces each vertex by the mean of
\* its own position and of the positions, before that iteration, of the vertices
\* sharing a triangle edge with it, each counted once; a vertex without edge
\* keeps its position. (The vertices that are left when the call has returned
\* are those of the last iteration.)
C27_SmoothIsJacobi ==
    (last.op = "laplacian_smooth" /\ Args.iterations >= 1 /\ ret.kind # "raise" /\ Len(V(mesh)) > 0)
    => V(mesh) = jacobi(V(Args.self), F(Args.self), Args.iterations)

-----------------------------------------------------------------------------
(* concatenate_mesh_bytes: grouping the fragments into the bricks of a level *)

\* a division that rounds towards zero
floor_divide_towards_zero(x, d) == IF x < 0 THEN -((-x) \div d) ELSE x \div d

\* x // d of numpy, on integers
floor_divide(x, d) == x \div d

\* bricks_to_combine * brick_shape
current_lod_brick_shape(brick_shape, current_lod, highest_res_lod) ==
    VecScale(Pow2(current_lod - highest_res_lod), brick_shape)

\* tuple(current_lod_brick_shape * (fragment_origin // current_lod_brick_shape))
combined_fragment_origin(fragment_origin, shape) ==
    [c \in 1..3 |-> shape[c] * floor_divide(fragment_origin[c], shape[c])]

\* the dictionary is a sequence of entries [key, meshes] in the order of insertion
has_key(dictionary, key) == \E i \in 1..Len(dictionary) : dictionary[i].key = key

dictionary_append(dictionary, key, m) ==
    [i \in 1..Len(dictionary) |->
        IF dictionary[i].key = key
        THEN [key |-> key, meshes |-> Append(dictionary[i].meshes, m)]
        ELSE dictionary[i]]

dictionary_add(dictionary, key, m) ==
    IF has_key(dictionary, key) THEN dictionary_append(dictionary, key, m)
    ELSE Append(dictionary, [key |-> key, meshes |-> <<m>>])

\* the loop over the first n meshes
RECURSIVE combined_mesh_dictionary(_, _, _)
combined_mesh_dictionary(meshes, shape, n) ==
    IF n = 0 THEN <<>>
    ELSE dictionary_add(combined_mesh_dictionary(meshes, shape, n - 1),
                        combined_fragment_origin(Val(meshes[n]._fragment_origin), shape), meshes[n])

\* the concatenation of an entry, with the attributes of the brick set on it
as_brick(r, fragment_origin, shape) ==
    IF Raised(r) THEN r
    ELSE Return([mesh |-> [r.mesh EXCEPT !._fragment_origin = Some(fragment_origin),
                                         !._fragment_shape = Some(shape)],
                 fullscale_fragment_origin |-> fragment_origin,
                 fullscale_fragment_shape |-> shape],
                "mesh", None)

combined_mesh(entry, shape) == as_brick(concatenate_meshes(entry.meshes, FALSE), entry.key, shape)

combined_meshes(dictionary, shape) ==
    [i \in 1..Len(dictionary) |-> combined_mesh(dictionary[i], shape)]

group_meshes_into_larger_bricks(meshes, current_lod, highest_res_lod) ==
    combined_meshes(
        combined_mesh_dictionary(
            meshes, current_lod_brick_shape(Val(meshes[1]._fragment_shape), current_lod, highest_res_lod),
            Len(meshes)),
        current_lod_brick_shape(Val(meshes[1]._fragment_shape), current_lod, highest_res_lod))

\* mesh.fragment_origin // meshes[0].fragment_shape
reduced_origin(brick, shape) ==
    [c \in 1..3 |-> floor_divide(Val(brick._fragment_origin)[c], shape[c])]

\* the bricks, sorted by their reduced origins (different for different bricks)
brick_at(bricks, shape, origin) ==
    bricks[CHOOSE i \in 1..Len(bricks) : reduced_origin(bricks[i].mesh, shape) = origin]

sorted_bricks(bricks, shape) ==
    [i \in 1..Len(bricks) |->
        brick_at(bricks, shape,
                 sorted_zorder([j \in 1..Len(bricks) |-> reduced_origin(bricks[j].mesh, shape)])[i])]

\* return [meshes], once the bricks are made
zcurve_ordered(results) ==
    IF \E i \in 1..Len(results) : Raised(results[i])
    THEN Raise(None, results[CHOOSE i \in 1..Len(results) : Raised(results[i])].ret.val)
    ELSE Return(None, "list",
                <<sorted_bricks([i \in 1..Len(results) |-> results[i].mesh],
                                Val(results[1].mesh.mesh._fragment_shape))>>)

\* [mesh for idx, mesh in enumerate(meshes) if vertex_count[idx] > 0]
nonempty_meshes(meshes, vertex_count) == MaskRows(meshes, [i \in 1..Len(meshes) |-> vertex_count[i] > 0])

concatenate_nonempty(meshes, current_lod, highest_res_lod) ==
    IF Len(meshes) = 0 THEN Raise(None, "IndexError")
    ELSE zcurve_ordered(group_meshes_into_larger_bricks(meshes, current_lod, highest_res_lod))

concatenate_mesh_bytes(meshes, vertex_count, current_lod, highest_res_lod) ==
    concatenate_nonempty(nonempty_meshes(meshes, vertex_count), current_lod, highest_res_lod)

\* the fragments of a level: origins at multiples of the fragment shape, below zero too
FragmentShape == <<2, 2, 2>>

FragmentOrigins == {<<x, y, 0>> : x \in {-4, -2, 0, 2}, y \in {0, 2}}

FragmentGeometries ==
    {<<<<>>, <<>>, None>>,
     <<Points, <<<<0, 1, 2>>>>, Some(Copies(<<0, 0, 1>>, Len(Points)))>>,
     <<<<FarPoint>>, <<>>, None>>}

LevelFragments ==
    {Mesh(g[1], g[2], g[3], None, Some(FragmentShape), Some(o), "lz4").mesh :
        g \in FragmentGeometries, o \in FragmentOrigins}

\* <<current_lod, highest_res_lod>>
Lods == {<<0, 0>>, <<1, 0>>, <<2, 0>>, <<2, 1>>}

InitBricks == Constructed(from_buffer_empty)

ConcatenateMeshBytes ==
    Fresh /\ \E meshes \in SeqsUpTo(LevelFragments, 3), lods \in Lods :
        Apply("concatenate_mesh_bytes",
              [meshes |-> meshes, vertex_count |-> vertex_counts(meshes),
               current_lod |-> lods[1], highest_res_lod |-> lods[2]],
              concatenated(concatenate_mesh_bytes(meshes, vertex_counts(meshes), lods[1], lods[2])))

NextBricks == ConcatenateMeshBytes

SpecBricks == InitBricks /\ [][NextBricks]_vars

\* a state concatenate_mesh_bytes has returned its bricks to
BricksReturned == last.op = "concatenate_mesh_bytes" /\ ret.kind = "list"

returned_bricks == ret.val[1]

\* the fragments that have vertices, in input order
with_vertices_of(meshes) == MaskRows(meshes, [i \in 1..Len(meshes) |-> Len(V(meshes[i])) > 0])

\* B: the fragment shape, doubled once per level above the highest resolution
brick_size == VecScale(Pow2(Args.current_lod - Args.highest_res_lod), FragmentShape)

\* o = B * floor(x / B): the multiple of B with o <= x < o + B
is_floor_multiple(o, x, size) == \E k \in -8..8 : o = k * size /\ o <= x /\ x < o + size

\* the fragment lies in the brick at origin
in_brick(fragment, origin) ==
    \A c \in 1..3 : is_floor_multiple(origin[c], Val(fragment._fragment_origin)[c], brick_size[c])

\* the fragments with vertices that lie in the brick at origin, in input order
members_of(origin) ==
    MaskRows(with_vertices_of(Args.meshes),
             [i \in 1..Len(with_vertices_of(Args.meshes)) |-> in_brick(with_vertices_of(Args.meshes)[i], origin)])

\* the brick is its members merged in input order, without normals
merges_members(brick) ==
    /\ Len(members_of(Val(brick._fragment_origin))) > 0
    /\ V(brick) = concat_rows([i \in 1..Len(members_of(Val(brick._fragment_origin))) |-> V(members_of(Val(brick._fragment_origin))[i])],
                              Len(members_of(Val(brick._fragment_origin))))
    /\ Len(V(brick)) = sum_of(vertex_counts(members_of(Val(brick._fragment_origin))),
                              Len(members_of(Val(brick._fragment_origin))))
    /\ Len(F(brick)) = sum_of(face_counts(members_of(Val(brick._fragment_origin))),
                              Len(members_of(Val(brick._fragment_origin))))
    /\ Len(N(brick)) = 0
    /\ brick._fragment_shape = Some(brick_size)

\* C28: concatenate_mesh_bytes partitions the fragments with vertices into
\* bricks of size B = 2^(current_lod - highest_res_lod) * fragment_shape: every
\* such fragment is merged into exactly one brick, the one at
\* B * floor(fragment_origin / B); a brick is its fragments merged in input
\* order, its counts are the sums of theirs, it has no normals, its
\* fragment_origin is the brick origin and its fragment_shape is B; no two
\* bricks have the same origin.
C28_BricksPartitionFragments ==
    BricksReturned
    => /\ \A i \in 1..Len(with_vertices_of(Args.meshes)) :
              Cardinality({b \in 1..Len(returned_bricks) :
                  in_brick(with_vertices_of(Args.meshes)[i], Val(returned_bricks[b].mesh._fragment_origin))}) = 1
       /\ \A b \in 1..Len(returned_bricks) : merges_members(returned_bricks[b].mesh)
       /\ \A a \in 1..Len(returned_bricks) : \A b \in 1..Len(returned_bricks) :
              a # b => returned_bricks[a].mesh._fragment_origin # returned_bricks[b].mesh._fragment_origin

\* two bricks are returned, one of them merged from two fragments below zero, one
\* of these with normals, and a fragment without vertices was left out
C28_Witness ==
    /\ BricksReturned
    /\ Args.current_lod > Args.highest_res_lod
    /\ Len(returned_bricks) = 2
    /\ Len(Args.meshes) = 3
    /\ \E b \in 1..2 :
          /\ Val(returned_bricks[b].mesh._fragment_origin)[1] < 0
          /\ Len(V(returned_bricks[b].mesh)) = Len(Points) + 1
    /\ \E i \in 1..3 : Len(N(Args.meshes[i])) > 0

serialize_needs_normals ==
    /\ last.op = "serialize"
    /\ Args.fmt \in {"drc", "custom_drc"}
    /\ Len(V(Args.self)) > 0 /\ Len(N(Args.self)) = 0
    /\ IsNone(Args.self._draco_bytes)

\* the faces of m that have an area
faces_with_area(m) == MaskRows(F(m), [j \in 1..Len(F(m)) |-> face_normal(V(m), F(m)[j]) # ZeroVec])

====
